---- MODULE Spec2Model ----
(***************************************************************************)
(* Judgment structural parser of SAFELAW: the config-driven parser         *)
(* (backend/Data Preparation/cenral_parser.py) and the self-contained      *)
(* regex parser (testing regex parsers/supreme_parser_test.py).            *)
(*                                                                         *)
(* A text is a sequence of symbols.  A symbol is either one character      *)
(* class of the source text or an atomic phrase, with a fixed spelling:    *)
(*   "NL" = "\n", "SP" = " ", "DOT" = ".", "COLON" = ":",                  *)
(*   "0".."9" = one ASCII digit, "HUGE" = a run of 5000 ASCII digits,      *)
(*   "LORD", "LADY", "REED", "HALE" = that upper-case word,                *)
(*   "LONG"    = 60 characters of lower-case prose with no keyword,        *)
(*   "SHORT"   = "Yes, I do."            (10 characters),                  *)
(*   "CITE"    = "[2024] UKSC 24"        (14 characters),                  *)
(*   "TRIB"    = "Upper Tribunal"        (14 characters),                  *)
(*   "DISSENT" = "I respectfully dissent" (22 characters),                 *)
(*   "TAG"     = "<p>"                    (3 characters),                  *)
(*   "BACKGROUND" = "Background"          (10 characters),                 *)
(*   "COA"     = "Court of Appeal"        (15 characters),                 *)
(*   "REASONS" = "for these reasons"      (17 characters),                 *)
(*   "DISSENTING" = "DISSENTING"          (10 characters),                 *)
(*   "MID"     = "twenty three characters" (23 characters),                *)
(*   "Unknown", "Unknown Judge", "Tribunal Panel" = the author sentinels.  *)
(* The regular expressions of the source are evaluated on symbols exactly  *)
(* as Python's re module evaluates them on the spelled-out characters.     *)
(***************************************************************************)
EXTENDS Integers, Sequences, FiniteSets, TLC

(***************************************************************************)
(* Bounds of the model.                                                    *)
(***************************************************************************)
MaxPieces == 5
MaxReplayPieces == 2
MaxWorkerPieces == 2
MaxBlockPieces == 2

(***************************************************************************)
(* Characters and strings.                                                 *)
(***************************************************************************)
DigitSyms == {"0", "1", "2", "3", "4", "5", "6", "7", "8", "9"}

DigitVal(c) ==
    CASE c = "0" -> 0 [] c = "1" -> 1 [] c = "2" -> 2 [] c = "3" -> 3
      [] c = "4" -> 4 [] c = "5" -> 5 [] c = "6" -> 6 [] c = "7" -> 7
      [] c = "8" -> 8 [] c = "9" -> 9

\* len() of one symbol's spelling
SymLen(c) ==
    CASE c \in {"LORD", "LADY", "REED", "HALE"} -> 4
      [] c = "LONG" -> 60
      [] c = "SHORT" -> 10
      [] c \in {"CITE", "TRIB", "Tribunal Panel"} -> 14
      [] c = "DISSENT" -> 22
      [] c = "HUGE" -> 5000
      [] c = "TAG" -> 3
      [] c \in {"BACKGROUND", "DISSENTING"} -> 10
      [] c = "MID" -> 23
      [] c = "COA" -> 15
      [] c = "REASONS" -> 17
      [] c = "Unknown" -> 7
      [] c = "Unknown Judge" -> 13
      [] OTHER -> 1

RECURSIVE StrLen(_)
\* len(s)
StrLen(s) == IF s = <<>> THEN 0 ELSE SymLen(Head(s)) + StrLen(Tail(s))

\* \s of Python's re, and the characters str.strip() removes
IsSpace(c) == c \in {"SP", "NL"}

\* \d of Python's re
IsDigit(c) == c \in DigitSyms \cup {"HUGE"}

\* [A-Z\- ] restricted to the symbols of the model
IsNameChar(c) == c \in {"LORD", "LADY", "REED", "HALE", "DISSENTING", "SP"}

\* the first character of the symbol's spelling is a word character (\w)
StartsWithWordChar(c) ==
    c \in DigitSyms \cup {"HUGE", "LORD", "LADY", "REED", "HALE", "LONG", "SHORT",
                          "TRIB", "DISSENT", "BACKGROUND", "COA", "REASONS",
                          "DISSENTING", "MID"}

RECURSIVE SkipSpace(_, _)
\* the first index >= p of s that holds no whitespace (Len(s) + 1 if none)
SkipSpace(s, p) ==
    IF p <= Len(s) /\ IsSpace(s[p]) THEN SkipSpace(s, p + 1) ELSE p

RECURSIVE SkipDigits(_, _)
SkipDigits(s, p) ==
    IF p <= Len(s) /\ IsDigit(s[p]) THEN SkipDigits(s, p + 1) ELSE p

RECURSIVE SkipName(_, _)
SkipName(s, p) ==
    IF p <= Len(s) /\ IsNameChar(s[p]) THEN SkipName(s, p + 1) ELSE p

RECURSIVE RSkipSpace(_, _)
\* the last index <= p of s that holds no whitespace (0 if none)
RSkipSpace(s, p) ==
    IF p >= 1 /\ IsSpace(s[p]) THEN RSkipSpace(s, p - 1) ELSE p

\* number of whitespace symbols str.strip() removes on the left
LeadingSpace(s) == SkipSpace(s, 1) - 1

\* str.strip()
Strip(s) == SubSeq(s, SkipSpace(s, 1), RSkipSpace(s, Len(s)))

RECURSIVE RStripColon(_)
\* str.rstrip(":")
RStripColon(s) ==
    IF s # <<>> /\ s[Len(s)] = "COLON" THEN RStripColon(SubSeq(s, 1, Len(s) - 1)) ELSE s

RECURSIVE FirstLineEnd(_, _)
\* index of the first "\n" at or after p (Len(s) + 1 if none)
FirstLineEnd(s, p) ==
    IF p <= Len(s) /\ s[p] # "NL" THEN FirstLineEnd(s, p + 1) ELSE p

\* content.split("\n")[0]
FirstLine(s) == SubSeq(s, 1, FirstLineEnd(s, 1) - 1)

RECURSIVE LastNL(_, _, _)
\* the largest index in lo..hi of s that holds "\n" (0 if none)
LastNL(s, lo, hi) ==
    IF hi < lo THEN 0 ELSE IF s[hi] = "NL" THEN hi ELSE LastNL(s, lo, hi - 1)

(***************************************************************************)
(* int(): the value of a decimal token, or ValueError.  CPython (3.11 and  *)
(* later) refuses a token of more than 4300 digits.                        *)
(***************************************************************************)
RECURSIVE DecimalValue(_, _)
DecimalValue(tok, acc) ==
    IF tok = <<>> THEN acc
    ELSE DecimalValue(Tail(tok), 10 * acc + DigitVal(Head(tok)))

\* a bug: only the first digit of the token is read
int_first_digit(tok) ==
    IF tok = <<>> \/ \E k \in 1..Len(tok) : tok[k] \notin DigitSyms
    THEN [ok |-> FALSE, val |-> 0]
    ELSE [ok |-> TRUE, val |-> DigitVal(tok[1])]

int(tok) ==
    IF tok = <<>> \/ \E k \in 1..Len(tok) : tok[k] \notin DigitSyms
    THEN [ok |-> FALSE, val |-> 0]
    ELSE [ok |-> TRUE, val |-> DecimalValue(tok, 0)]

(***************************************************************************)
(* Regular expressions.  A match is reported by its end: the index just    *)
(* after the match, or 0 when the pattern does not match at p.             *)
(***************************************************************************)

\* PARAGRAPH_SPLIT_REGEX  \n\s*(\d+)\.\s+  at index p
ParaMatchEnd(s, p) ==
    IF s[p] # "NL" THEN 0
    ELSE LET q == SkipSpace(s, p + 1)
             d == SkipDigits(s, q)
         IN  IF d = q \/ d > Len(s) THEN 0
             ELSE IF s[d] # "DOT" THEN 0
             ELSE LET w == SkipSpace(s, d + 1)
                  IN  IF w = d + 1 THEN 0 ELSE w

RECURSIVE ParaSplitFrom(_, _, _)
\* re.split of the paragraph pattern over s[start..], scanning from scan:
\* [text, number, text, number, text, ...]; off is the number of symbols of s
\* before the element (a ghost: the element's place in s)
ParaSplitFrom(s, start, scan) ==
    IF scan > Len(s)
    THEN << [s |-> SubSeq(s, start, Len(s)), off |-> start - 1] >>
    ELSE LET e == ParaMatchEnd(s, scan)
         IN  IF e = 0 THEN ParaSplitFrom(s, start, scan + 1)
             ELSE LET q == SkipSpace(s, scan + 1)
                      d == SkipDigits(s, q)
                  IN  << [s |-> SubSeq(s, start, scan - 1), off |-> start - 1],
                         [s |-> SubSeq(s, q, d - 1), off |-> q - 1] >>
                      \o ParaSplitFrom(s, e, e)

\* re.split(PARAGRAPH_SPLIT_REGEX, text_block)
ParaSplit(s) == ParaSplitFrom(s, 1, 1)

\* JUDGE_HEADER_REGEX  ^(LORD|LADY)\s+[A-Z\- ]+:\s*$  at index p; multiline is
\* the re.MULTILINE flag.  e is the end of the match (0: no match), c the
\* index of the colon.
JudgeMatch(s, p, multiline) ==
    LET none == [e |-> 0, c |-> 0]
    IN  IF ~(p = 1 \/ (multiline /\ s[p - 1] = "NL")) THEN none
        ELSE IF s[p] \notin {"LORD", "LADY"} THEN none
        ELSE LET a == SkipSpace(s, p + 1)
                 c == SkipName(s, a)
             IN  IF a = p + 1 THEN none
                 ELSE IF c > Len(s) THEN none
                 ELSE IF s[c] # "COLON" THEN none
                 ELSE IF c = a /\ ~(a - (p + 1) >= 2 /\ s[a - 1] = "SP") THEN none
                 ELSE LET b == SkipSpace(s, c + 1)
                          n == LastNL(s, c + 1, b - 1)
                      IN  IF b > Len(s) THEN [e |-> b, c |-> c]
                          ELSE IF multiline /\ n # 0 THEN [e |-> n, c |-> c]
                          ELSE none

RECURSIVE JudgeSplitFrom(_, _, _, _)
\* re.split of the judge-header pattern (re.MULTILINE) over s[start..]; group is
\* what the pattern's one capture group holds: "title" for (LORD|LADY), "name"
\* for the header line without its colon
JudgeSplitFrom(s, start, scan, group) ==
    IF scan > Len(s)
    THEN << [s |-> SubSeq(s, start, Len(s)), off |-> start - 1] >>
    ELSE LET m == JudgeMatch(s, scan, TRUE)
         IN  IF m.e = 0 THEN JudgeSplitFrom(s, start, scan + 1, group)
             ELSE << [s |-> SubSeq(s, start, scan - 1), off |-> start - 1],
                     [s |-> IF group = "title" THEN SubSeq(s, scan, scan)
                                               ELSE SubSeq(s, scan, m.c - 1),
                      off |-> scan - 1] >>
                  \o JudgeSplitFrom(s, m.e, m.e, group)

\* a pattern that matches one atomic phrase; the citation pattern
\* \[\d{4}\]\s+UKSC\s+\d+ ends in \d+ and so takes the digits that follow "CITE"
PhraseMatchEnd(ph, s, p) ==
    IF s[p] # ph THEN 0
    ELSE IF ph = "CITE" THEN SkipDigits(s, p + 1) ELSE p + 1

RECURSIVE PhraseSearchFrom(_, _, _)
\* re.search: the index of the leftmost match at or after p (0 if none)
PhraseSearchFrom(ph, s, p) ==
    IF p > Len(s) THEN 0
    ELSE IF PhraseMatchEnd(ph, s, p) # 0 THEN p
    ELSE PhraseSearchFrom(ph, s, p + 1)

RECURSIVE PhraseFindAllFrom(_, _, _)
\* re.findall: every non-overlapping match, left to right, as matched
PhraseFindAllFrom(ph, s, p) ==
    LET m == PhraseSearchFrom(ph, s, p)
    IN  IF m = 0 THEN <<>>
        ELSE LET e == PhraseMatchEnd(ph, s, m)
             IN  << SubSeq(s, m, e - 1) >> \o PhraseFindAllFrom(ph, s, e)

\* re.search(r"(?i)\b(i respectfully )?dissent\b", s): the phrase ends in
\* "dissent" and \b needs a non-word character (or the end) after it
DissentWordIn(s) ==
    \E p \in 1..Len(s) :
        /\ s[p] = "DISSENT"
        /\ (p = Len(s) \/ ~StartsWithWordChar(s[p + 1]))

\* "dissent" in s.lower()
DissentSubstringIn(s) == \E p \in 1..Len(s) : s[p] \in {"DISSENT", "DISSENTING"}

(***************************************************************************)
(* The configuration (court_config.yaml, read by config_loader.py).  A     *)
(* pattern of the configuration that matches one phrase is written as that *)
(* phrase's symbol.                                                        *)
(***************************************************************************)
SupremeCourt ==
    [name |-> "UK Supreme Court", identification_regex |-> "CITE",
     structure_type |-> "seriatim", db_code |-> "UKSC"]

UpperTribunal ==
    [name |-> "Upper Tribunal", identification_regex |-> "TRIB",
     structure_type |-> "unitary", db_code |-> "UKUT"]

\* parsing_rules and section_patterns of the configuration
ParsingRules ==
    [judge_header_group |-> "name", citation_regex |-> "CITE"]

SectionPatterns ==
    [facts |-> << "BACKGROUND" >>, dissent_indicators |-> << "DISSENT" >>]

\* the configurations the model loads: the two orders of the court list
Configs ==
    { [courts |-> cs, parsing_rules |-> ParsingRules, section_patterns |-> SectionPatterns] :
        cs \in { << SupremeCourt, UpperTribunal >>, << UpperTribunal, SupremeCourt >> } }

(***************************************************************************)
(* Input documents: sequences of at most MaxPieces lines, each line drawn  *)
(* from one alphabet of lines.                                             *)
(***************************************************************************)
Piece(n) ==
    CASE n = "HR"  -> << "LORD", "SP", "REED", "COLON", "NL" >>
      [] n = "HH"  -> << "LADY", "SP", "HALE", "COLON", "NL" >>
      [] n = "L"   -> << "LONG", "NL" >>
      [] n = "S"   -> << "SHORT", "NL" >>
      [] n = "C"   -> << "CITE", "NL" >>
      [] n = "T"   -> << "TRIB", "NL" >>
      [] n = "P1"  -> << "1", "DOT", "SP", "LONG", "NL" >>
      [] n = "P2C" -> << "2", "DOT", "SP", "LONG", "SP", "CITE", "DOT", "NL" >>
      [] n = "P07" -> << "0", "7", "DOT", "SP", "LONG", "NL" >>
      [] n = "PH"  -> << "HUGE", "DOT", "SP", "LONG", "NL" >>
      [] n = "P3D" -> << "3", "DOT", "SP", "DISSENT", "DOT", "NL" >>
      [] n = "XP1" -> << "TAG", "1", "DOT", "SP", "LONG", "NL" >>
      [] n = "HD"  -> << "LORD", "SP", "REED", "SP", "DISSENTING", "COLON", "NL" >>
      [] n = "M"   -> << "MID", "NL" >>
      [] n = "PM"  -> << "1", "DOT", "SP", "MID", "NL" >>
      [] n = "C7"  -> << "CITE", "7", "NL" >>
      [] n = "P24B" -> << "2", "4", "DOT", "SP", "BACKGROUND", "NL" >>
      [] n = "P25B" -> << "2", "5", "DOT", "SP", "BACKGROUND", "NL" >>
      [] n = "P30B" -> << "3", "0", "DOT", "SP", "BACKGROUND", "NL" >>
      [] n = "P5RH" -> << "5", "DOT", "SP", "REASONS", "SP", "COA", "NL" >>
      [] n = "P6R"  -> << "6", "DOT", "SP", "REASONS", "NL" >>
      [] n = "P7LB" -> << "7", "DOT", "SP", "LONG", "NL", "BACKGROUND", "NL" >>
      [] n = "P8BH" -> << "8", "DOT", "SP", "BACKGROUND", "SP", "COA", "NL" >>
      [] n = "P9CC" -> << "9", "DOT", "SP", "CITE", "SP", "LONG", "SP", "CITE", "DOT", "NL" >>
      [] n = "P12D" -> << "1", "2", "DOT", "SP", "DISSENT", "DOT", "NL" >>
      [] n = "P4E" -> << "4", "DOT", "NL" >>
      [] n = "PP" -> << "1", "DOT", "SP", "LONG", "NL", "2", "DOT", "SP", "BACKGROUND", "NL" >>

Alphabets ==
    [ route   |-> {"C", "T", "P1", "C7"},
      unitary |-> {"T", "HR", "P1", "P3D"},
      judges  |-> {"HR", "HH", "L", "P2C"},
      numbers |-> {"P1", "P2C", "P07", "PH"},
      dissent |-> {"HR", "HD", "P2C"},
      short   |-> {"C", "HR", "M", "PM"},
      replay  |-> {"HR", "T", "P2C"},
      workers |-> {"HR", "HH", "P2C", "T"},
      sections |-> {"P24B", "P25B", "P30B", "P5RH", "P6R", "P7LB", "P8BH", "P9CC"},
      override |-> {"P3D", "P6R", "P12D", "P4E"},
      lead |-> {"L", "HR", "PP"} ]

\* the alphabets of the documents one process parses one after another
MainAlphabets == {"route", "unitary", "judges", "numbers", "dissent", "short"}

\* the longest document over alphabet a, in lines
PieceBound(a) ==
    CASE a = "replay" -> MaxReplayPieces
      [] a = "workers" -> MaxWorkerPieces
      [] a = "sections" -> MaxBlockPieces
      [] a = "override" -> MaxBlockPieces
      [] OTHER -> MaxPieces

RECURSIVE Flatten(_)
Flatten(d) == IF d = <<>> THEN <<>> ELSE Piece(Head(d)) \o Flatten(Tail(d))

\* the documents over alphabet a; the documents that are parsed twice
\* (alphabet replay) are shorter
Docs(a) ==
    UNION { [1..n -> Alphabets[a]] : n \in 0..PieceBound(a) }

(***************************************************************************)
(* Program constants.                                                      *)
(***************************************************************************)
MinSegmentLen == 50
MajoritySegments == 3
FactsParaLimit == 25
DissentParaLimit == 10

(***************************************************************************)
(* A chunk is the dictionary the segmenter appends, with one ghost field:  *)
(* pos, the index in the document of the first digit of the paragraph      *)
(* number that introduced the chunk.                                       *)
(***************************************************************************)
EmptyCase == [citation |-> <<>>, court_level |-> "", chunks |-> <<>>]

(***************************************************************************)
(* cenral_parser.py                                                        *)
(***************************************************************************)

\* a bug: re.search in place of re.findall, only the first citation is kept
extract_citations_first_only(cfg, txt) ==
    LET found == PhraseFindAllFrom(cfg.parsing_rules.citation_regex, txt, 1)
    IN  IF found = << >> THEN << >> ELSE << found[1] >>

\* extract_citations: re.findall(citation_regex, text)
extract_citations(cfg, txt) ==
    PhraseFindAllFrom(cfg.parsing_rules.citation_regex, txt, 1)

\* a bug: the last match is taken, not the first
find_main_citation_last(txt, regex_pattern) ==
    LET ms == { p \in 1..Len(txt) : PhraseMatchEnd(regex_pattern, txt, p) # 0 }
    IN  IF ms = {} THEN << "Unknown Citation" >>
        ELSE LET m == CHOOSE p \in ms : \A q \in ms : q <= p
             IN  SubSeq(txt, m, PhraseMatchEnd(regex_pattern, txt, m) - 1)

\* find_main_citation
find_main_citation(txt, regex_pattern) ==
    LET m == PhraseSearchFrom(regex_pattern, txt, 1)
    IN  IF m # 0 THEN SubSeq(txt, m, PhraseMatchEnd(regex_pattern, txt, m) - 1)
        ELSE << "Unknown Citation" >>

\* a bug: the flag is set only from the second citation on
has_citation_off_by_one(citations_found) == Len(citations_found) > 1

\* has_citation = len(citations_found) > 0
has_citation_of(citations_found) == Len(citations_found) > 0

\* the facts test of split_into_paragraphs
section_type_of(cfg, para_num, first_line, is_lead) ==
    IF /\ is_lead
       /\ para_num < FactsParaLimit
       /\ \E j \in 1..Len(cfg.section_patterns.facts) :
              PhraseSearchFrom(cfg.section_patterns.facts[j], first_line, 1) # 0
    THEN "facts"
    ELSE "analysis"

\* the dissent re-check of split_into_paragraphs: the new value of opinion_type
opinion_after_recheck(cfg, para_num, content, opinion_type) ==
    IF /\ para_num < DissentParaLimit
       /\ \E j \in 1..Len(cfg.section_patterns.dissent_indicators) :
              PhraseSearchFrom(cfg.section_patterns.dissent_indicators[j], content, 1) # 0
    THEN "dissenting"
    ELSE opinion_type

\* one chunk of split_into_paragraphs
make_chunk(cfg, para_num, content, author, opinion_type, section_type, pos) ==
    LET citations_found == extract_citations(cfg, content)
    IN  [para_number |-> para_num,
         content_text |-> content,
         author_name |-> author,
         opinion_type |-> opinion_type,
         section_type |-> section_type,
         has_citation |-> has_citation_of(citations_found),
         cited_cases |-> citations_found,
         pos |-> pos]

RECURSIVE paragraph_loop(_, _, _, _, _, _, _, _)
\* the loop of split_into_paragraphs over parts[k], parts[k + 1] (k counts from
\* 1 here: parts[k] is the number).  raised: int() raised ValueError, which
\* nothing in cenral_parser.py catches.
paragraph_loop(cfg, parts, k, author, opinion_type, is_lead, base, chunks) ==
    IF k > Len(parts) THEN [chunks |-> chunks, raised |-> FALSE]
    ELSE LET para_num == int(parts[k].s)
         IN  IF ~para_num.ok THEN [chunks |-> chunks, raised |-> TRUE]
             ELSE LET content == Strip(parts[k + 1].s)
                      section_type == section_type_of(cfg, para_num.val, FirstLine(content), is_lead)
                      opinion == opinion_after_recheck(cfg, para_num.val, content, opinion_type)
                      chunk == make_chunk(cfg, para_num.val, content, author, opinion,
                                          section_type, base + parts[k].off + 1)
                  IN  paragraph_loop(cfg, parts, k + 2, author, opinion, is_lead, base,
                                     Append(chunks, chunk))

\* split_into_paragraphs(text_block, author, opinion_type, is_lead); base is the
\* number of symbols of the document before text_block (ghost)
split_into_paragraphs(cfg, text_block, author, opinion_type, is_lead, base) ==
    paragraph_loop(cfg, ParaSplit(text_block), 2, author, opinion_type, is_lead, base, <<>>)

\* re.match(judge_regex, segment + ":")
is_header_segment(segment) == JudgeMatch(segment \o << "COLON" >>, 1, FALSE).e # 0

\* a bug: the test lets three bodies (and the headers between them) through
default_opinion_three_bodies(i) == IF i < 5 THEN "majority" ELSE "concurring"

\* opinion_type = "majority" if i < 3 else "concurring"
default_opinion(i) == IF i < MajoritySegments THEN "majority" ELSE "concurring"

\* the override by the author's name
seriatim_opinion(i, current_author) ==
    IF DissentSubstringIn(current_author) THEN "dissenting" ELSE default_opinion(i)

\* a bug: the new chunks are put in front of the list
extend_in_front(chunks, new_chunks) == new_chunks \o chunks

\* case_data['chunks'].extend(new_chunks)
extend(chunks, new_chunks) == chunks \o new_chunks

(***************************************************************************)
(* supreme_parser_test.py                                                  *)
(***************************************************************************)

RECURSIVE strip_xml_tags(_)
\* re.sub(r"<[^>]+>", " ", text)
strip_xml_tags(txt) ==
    IF txt = <<>> THEN <<>>
    ELSE << IF Head(txt) = "TAG" THEN "SP" ELSE Head(txt) >> \o strip_xml_tags(Tail(txt))

\* a bug: the conclusion test comes before the lower-court test
classify_section_conclusion_first(para_num, content, is_lead) ==
    IF /\ is_lead
       /\ para_num <= FactsParaLimit
       /\ PhraseSearchFrom("BACKGROUND", FirstLine(content), 1) # 0
    THEN "facts"
    ELSE IF PhraseSearchFrom("REASONS", content, 1) # 0 THEN "conclusion"
    ELSE IF PhraseSearchFrom("COA", content, 1) # 0 THEN "history_lower_court"
    ELSE "analysis"

\* classify_section
classify_section(para_num, content, is_lead) ==
    IF /\ is_lead
       /\ para_num <= FactsParaLimit
       /\ PhraseSearchFrom("BACKGROUND", FirstLine(content), 1) # 0
    THEN "facts"
    ELSE IF PhraseSearchFrom("COA", content, 1) # 0 THEN "history_lower_court"
    ELSE IF PhraseSearchFrom("REASONS", content, 1) # 0 THEN "conclusion"
    ELSE "analysis"

\* extract_citations: CITATION_REGEX.findall(text)
test_extract_citations(txt) == PhraseFindAllFrom("CITE", txt, 1)

\* has_citation = bool(citations_found)
test_has_citation_of(citations_found) == citations_found # <<>>

\* local_opinion of split_into_paragraphs
local_opinion_of(content, opinion_type) ==
    IF DissentWordIn(content) THEN "dissenting" ELSE opinion_type

RECURSIVE test_paragraph_loop(_, _, _, _, _, _, _)
\* the loop of split_into_paragraphs: a number int() refuses and an empty body
\* are skipped
test_paragraph_loop(parts, idx, author, opinion_type, is_lead, base, chunks) ==
    IF idx > Len(parts) THEN chunks
    ELSE LET para_num == int(parts[idx].s)
             content == Strip(parts[idx + 1].s)
             citations_found == test_extract_citations(content)
             chunk == [para_number |-> para_num.val,
                       content_text |-> content,
                       author_name |-> author,
                       opinion_type |-> local_opinion_of(content, opinion_type),
                       section_type |-> classify_section(para_num.val, content, is_lead),
                       has_citation |-> test_has_citation_of(citations_found),
                       cited_cases |-> citations_found,
                       pos |-> base + parts[idx].off + 1]
         IN  test_paragraph_loop(parts, idx + 2, author, opinion_type, is_lead, base,
                 IF ~para_num.ok \/ content = <<>> THEN chunks ELSE Append(chunks, chunk))

test_split_into_paragraphs(text_block, author, opinion_type, is_lead, base) ==
    test_paragraph_loop(ParaSplit(text_block), 2, author, opinion_type, is_lead, base, <<>>)

\* JUDGE_HEADER_REGEX.match(segment + ":")
test_is_header_segment(segment) == JudgeMatch(segment \o << "COLON" >>, 1, TRUE).e # 0

\* a bug: every qualifying segment sets the flag
seen_first_judge_after_any(seen, new_chunks, is_lead) == TRUE

\* seen_first_judge after a qualifying segment:
\* `if new_chunks and is_lead: seen_first_judge = True`
seen_first_judge_after(seen, new_chunks, is_lead) ==
    seen \/ (new_chunks # << >> /\ is_lead)

\* opinion_type of process_document, after the dissent check
test_opinion(is_lead, current_author, block) ==
    IF DissentWordIn(current_author) \/ DissentWordIn(block) THEN "dissenting"
    ELSE IF is_lead THEN "majority" ELSE "concurring"

(***************************************************************************)
(* The state: one process that parses documents one after another.         *)
(***************************************************************************)
VARIABLES
    prog,             \* which parser the process runs: "config" or "self"
    CONFIG,           \* config_loader.CONFIG, loaded once
    alpha,            \* the alphabet the input documents are drawn from
    pc,               \* position of the process
    raw_text,         \* argument of process_document
    detected_court,   \* process_document: index into CONFIG.courts, 0 for None
    text,             \* the text the parse strategy works on
    segments,         \* result of the split on judge headers
    i,                \* loop index over segments (counts from 0, as enumerate)
    current_author,
    seen_first_judge,
    case_data,
    result,           \* what process_document returned or raised
    calls,            \* ghost: the calls made during this process_document
    memo,             \* ghost: a document parsed earlier, with its result
    parked,           \* the frame of the worker thread that is not running
    fcall,            \* a direct call of one function: its arguments and result
    corpus_documents, \* the rows of the Supabase table, in insertion order
    res               \* what SentenceRetriever.query returned last

vars == << prog, CONFIG, alpha, pc, raw_text, detected_court, text, segments, i,
           current_author, seen_first_judge, case_data, result, calls, memo,
           parked, fcall, corpus_documents, res >>

\* what process_document and the parse strategies never touch
others == << parked, fcall, corpus_documents, res >>

NoCalls == [seriatim |-> 0, unitary |-> 0, segmenter |-> <<>>, switched |-> FALSE]

NoResult == [kind |-> "pending", case |-> EmptyCase]

NoMemo == [set |-> FALSE, raw_text |-> <<>>, result |-> NoResult, other |-> FALSE]

\* no direct call is made
NoCall == [fn |-> "none", returned |-> FALSE]

\* no query has been answered
NoRes == [offset |-> 0, targets |-> << >>, out |-> << >>]

\* the local variables of one call of process_document and of the parse
\* strategy it runs
locals ==
    [detected_court |-> detected_court, text |-> text, segments |-> segments, i |-> i,
     current_author |-> current_author, seen_first_judge |-> seen_first_judge,
     case_data |-> case_data]

SetLocals(l) ==
    /\ detected_court' = l.detected_court
    /\ text' = l.text
    /\ segments' = l.segments
    /\ i' = l.i
    /\ current_author' = l.current_author
    /\ seen_first_judge' = l.seen_first_judge
    /\ case_data' = l.case_data

\* locals that hold nothing: a frame before its first call
NoLocals ==
    [detected_court |-> 0, text |-> <<>>, segments |-> <<>>, i |-> 0,
     current_author |-> <<>>, seen_first_judge |-> FALSE, case_data |-> EmptyCase]

\* a worker thread that has not called process_document yet
NoFrame ==
    [pc |-> "idle", raw_text |-> << >>, locals |-> NoLocals, result |-> NoResult,
     calls |-> NoCalls]

InitCommon ==
    /\ prog \in {"config", "self"}
    /\ CONFIG \in Configs
    /\ prog = "self" => CONFIG.courts[1] = SupremeCourt
    /\ pc = "idle"
    /\ raw_text = <<>>
    /\ detected_court = 0
    /\ text = <<>>
    /\ segments = <<>>
    /\ i = 0
    /\ current_author = <<>>
    /\ seen_first_judge = FALSE
    /\ case_data = EmptyCase
    /\ result = NoResult
    /\ calls = NoCalls
    /\ memo = NoMemo
    /\ parked = NoFrame
    /\ fcall = NoCall
    /\ corpus_documents = << >>
    /\ res = NoRes

Init ==
    /\ alpha \in MainAlphabets
    /\ InitCommon

\* the caller reads a document and calls process_document(raw_text, filename)
Start ==
    /\ pc = "idle"
    /\ \E d \in Docs(alpha) : raw_text' = Flatten(d)
    /\ pc' = "called"
    /\ result' = NoResult
    /\ calls' = NoCalls
    /\ UNCHANGED << prog, CONFIG, alpha, detected_court, text, segments, i,
                    current_author, seen_first_judge, case_data, memo >>
    /\ UNCHANGED others

(***************************************************************************)
(* cenral_parser.py: process_document                                      *)
(***************************************************************************)
RECURSIVE detect_court_no_break(_, _, _)
\* a bug: the loop has no break, the last matching court wins
detect_court_no_break(courts, txt, j) ==
    IF j > Len(courts) THEN 0
    ELSE LET later == detect_court_no_break(courts, txt, j + 1)
         IN  IF later # 0 THEN later
             ELSE IF PhraseSearchFrom(courts[j].identification_regex, txt, 1) # 0 THEN j
             ELSE 0

\* a bug: the first court of the list is taken whenever some court matches
detect_court_first_listed(courts, txt, j) ==
    IF \E k \in j..Len(courts) : PhraseSearchFrom(courts[k].identification_regex, txt, 1) # 0
    THEN j
    ELSE 0

\* a bug: a matching court of a kind with no parse strategy is passed over
RECURSIVE detect_court_known_kind(_, _, _)
detect_court_known_kind(courts, txt, j) ==
    IF j > Len(courts) THEN 0
    ELSE IF /\ PhraseSearchFrom(courts[j].identification_regex, txt, 1) # 0
            /\ courts[j].structure_type \in {"seriatim", "unitary"}
         THEN j
    ELSE detect_court_known_kind(courts, txt, j + 1)

RECURSIVE detect_court(_, _, _)
\* the loop over CONFIG['courts']: the index of the first court whose
\* identification_regex is found in raw_text, 0 for None
detect_court(courts, txt, j) ==
    IF j > Len(courts) THEN 0
    ELSE IF PhraseSearchFrom(courts[j].identification_regex, txt, 1) # 0 THEN j
    ELSE detect_court(courts, txt, j + 1)

\* a bug: an unidentified document is parsed as a unitary judgment
route_of_with_fallback(courts, detected) ==
    IF detected = 0 THEN "parse_unitary_judgment"
    ELSE IF courts[detected].structure_type = "seriatim" THEN "parse_seriatim_judgment"
    ELSE "parse_unitary_judgment"

\* where process_document goes for the detected court
route_of(courts, detected) ==
    IF detected = 0 THEN "return None"
    ELSE IF courts[detected].structure_type = "seriatim" THEN "parse_seriatim_judgment"
    ELSE IF courts[detected].structure_type = "unitary" THEN "parse_unitary_judgment"
    ELSE "return None"

process_document ==
    /\ pc = "called"
    /\ prog = "config"
    /\ LET detected == detect_court(CONFIG.courts, raw_text, 1)
           route == route_of(CONFIG.courts, detected)
       IN  /\ detected_court' = detected
           /\ IF route = "return None"
              THEN /\ pc' = "done"
                   /\ result' = [kind |-> "None", case |-> EmptyCase]
                   /\ calls' = calls
              ELSE /\ pc' = route
                   /\ result' = result
                   /\ calls' = IF route = "parse_seriatim_judgment"
                               THEN [calls EXCEPT !.seriatim = @ + 1]
                               ELSE [calls EXCEPT !.unitary = @ + 1]
    /\ UNCHANGED << prog, CONFIG, alpha, raw_text, text, segments, i, current_author,
                    seen_first_judge, case_data, memo >>
    /\ UNCHANGED others

(***************************************************************************)
(* cenral_parser.py: parse_seriatim_judgment                               *)
(***************************************************************************)
\* a bug: current_author is not set before the loop (it lives on from the call
\* before)
seriatim_entry_stale_author(l, cfg, txt, court_config) ==
    [l EXCEPT
        !.text = txt,
        !.case_data = [citation |-> find_main_citation(txt, court_config.identification_regex),
                       court_level |-> court_config.db_code,
                       chunks |-> <<>>],
        !.segments = JudgeSplitFrom(txt, 1, 1, cfg.parsing_rules.judge_header_group),
        !.i = 0]

\* the locals after the statements before the loop
seriatim_entry(l, cfg, txt, court_config) ==
    [l EXCEPT
        !.text = txt,
        !.case_data = [citation |-> find_main_citation(txt, court_config.identification_regex),
                       court_level |-> court_config.db_code,
                       chunks |-> <<>>],
        !.segments = JudgeSplitFrom(txt, 1, 1, cfg.parsing_rules.judge_header_group),
        !.current_author = << "Unknown" >>,
        !.i = 0]

parse_seriatim_judgment ==
    /\ pc = "parse_seriatim_judgment"
    /\ SetLocals(seriatim_entry(locals, CONFIG, raw_text, CONFIG.courts[detected_court]))
    /\ pc' = "seriatim_loop"
    /\ UNCHANGED << prog, CONFIG, alpha, raw_text, result, calls, memo >>
    /\ UNCHANGED others

\* one round of the loop over segments
seriatim_loop ==
    /\ pc = "seriatim_loop"
    /\ i < Len(segments)
    /\ LET segment == segments[i + 1]
       IN  IF is_header_segment(segment.s)
           THEN /\ current_author' = Strip(segment.s)
                /\ i' = i + 1
                /\ UNCHANGED << pc, case_data, result, calls >>
           ELSE IF StrLen(Strip(segment.s)) > MinSegmentLen
           THEN LET opinion_type == seriatim_opinion(i, current_author)
                    is_lead == (opinion_type = "majority")
                    new == split_into_paragraphs(CONFIG, segment.s, current_author,
                                                 opinion_type, is_lead, segment.off)
                IN  /\ calls' = [calls EXCEPT !.segmenter = Append(@,
                                    [text_block |-> segment.s, author |-> current_author,
                                     opinion_type |-> opinion_type, is_lead |-> is_lead,
                                     i |-> i])]
                    /\ current_author' = current_author
                    /\ IF new.raised
                       THEN /\ pc' = "done"
                            /\ result' = [kind |-> "ValueError", case |-> EmptyCase]
                            /\ UNCHANGED << i, case_data >>
                       ELSE /\ case_data' = [case_data EXCEPT
                                                !.chunks = extend(@, new.chunks)]
                            /\ i' = i + 1
                            /\ UNCHANGED << pc, result >>
           ELSE /\ i' = i + 1
                /\ UNCHANGED << pc, current_author, case_data, result, calls >>
    /\ UNCHANGED << prog, CONFIG, alpha, raw_text, detected_court, text, segments,
                    seen_first_judge, memo >>
    /\ UNCHANGED others

\* return case_data
seriatim_return ==
    /\ pc = "seriatim_loop"
    /\ i = Len(segments)
    /\ pc' = "done"
    /\ result' = [kind |-> "case", case |-> case_data]
    /\ UNCHANGED << prog, CONFIG, alpha, raw_text, detected_court, text, segments, i,
                    current_author, seen_first_judge, case_data, calls, memo >>
    /\ UNCHANGED others

(***************************************************************************)
(* cenral_parser.py: parse_unitary_judgment                                *)
(***************************************************************************)
\* a bug: the block is attributed like a seriatim segment before any header
unitary_call_unknown_author(txt) ==
    [text_block |-> txt, author |-> << "Unknown" >>, opinion_type |-> "majority",
     is_lead |-> TRUE, i |-> 0]

\* the one call of split_into_paragraphs that parse_unitary_judgment makes
unitary_call(txt) ==
    [text_block |-> txt, author |-> << "Tribunal Panel" >>, opinion_type |-> "majority",
     is_lead |-> TRUE, i |-> 0]

parse_unitary_judgment ==
    /\ pc = "parse_unitary_judgment"
    /\ LET court_config == CONFIG.courts[detected_court]
           call == unitary_call(raw_text)
           new == split_into_paragraphs(CONFIG, call.text_block, call.author,
                                        call.opinion_type, call.is_lead, 0)
           data == [citation |-> find_main_citation(raw_text, court_config.identification_regex),
                    court_level |-> court_config.db_code,
                    chunks |-> extend(<<>>, new.chunks)]
       IN  /\ text' = raw_text
           /\ calls' = [calls EXCEPT !.segmenter = Append(@, call)]
           /\ case_data' = IF new.raised THEN [data EXCEPT !.chunks = <<>>] ELSE data
           /\ result' = IF new.raised THEN [kind |-> "ValueError", case |-> EmptyCase]
                                      ELSE [kind |-> "case", case |-> data]
    /\ pc' = "done"
    /\ UNCHANGED << prog, CONFIG, alpha, raw_text, detected_court, segments, i,
                    current_author, seen_first_judge, memo >>
    /\ UNCHANGED others

(***************************************************************************)
(* supreme_parser_test.py: process_document                                *)
(***************************************************************************)
\* the locals after the statements before the loop (the echoed filename is
\* left out of case_data)
test_entry(l, raw) ==
    LET txt == strip_xml_tags(raw)
        m == PhraseSearchFrom("CITE", txt, 1)
    IN  [l EXCEPT
            !.text = txt,
            !.case_data = [citation |-> IF m # 0
                                        THEN SubSeq(txt, m, PhraseMatchEnd("CITE", txt, m) - 1)
                                        ELSE << "Unknown Citation" >>,
                           court_level |-> "UKSC",
                           chunks |-> <<>>],
            !.segments = JudgeSplitFrom(txt, 1, 1, "title"),
            !.current_author = << "Unknown Judge" >>,
            !.seen_first_judge = FALSE,
            !.i = 0]

test_process_document ==
    /\ pc = "called"
    /\ prog = "self"
    /\ SetLocals(test_entry(locals, raw_text))
    /\ pc' = "test_loop"
    /\ UNCHANGED << prog, CONFIG, alpha, raw_text, result, calls, memo >>
    /\ UNCHANGED others

\* one round of the loop over segments
test_loop ==
    /\ pc = "test_loop"
    /\ i < Len(segments)
    /\ LET segment == segments[i + 1]
           block == Strip(segment.s)
       IN  IF test_is_header_segment(segment.s)
           THEN /\ current_author' = RStripColon(Strip(segment.s))
                /\ UNCHANGED << seen_first_judge, case_data, calls >>
           ELSE IF StrLen(block) < MinSegmentLen
           THEN UNCHANGED << current_author, seen_first_judge, case_data, calls >>
           ELSE LET is_lead == ~seen_first_judge
                    opinion_type == test_opinion(is_lead, current_author, block)
                    new_chunks == test_split_into_paragraphs(block, current_author,
                                      opinion_type, is_lead,
                                      segment.off + LeadingSpace(segment.s))
                IN  /\ calls' = [calls EXCEPT !.segmenter = Append(@,
                                    [text_block |-> block, author |-> current_author,
                                     opinion_type |-> opinion_type, is_lead |-> is_lead,
                                     i |-> i])]
                    /\ seen_first_judge' = seen_first_judge_after(seen_first_judge,
                                                                  new_chunks, is_lead)
                    /\ case_data' = [case_data EXCEPT !.chunks = extend(@, new_chunks)]
                    /\ current_author' = current_author
    /\ i' = i + 1
    /\ UNCHANGED << prog, CONFIG, alpha, pc, raw_text, detected_court, text, segments,
                    result, memo >>
    /\ UNCHANGED others

\* return case_data
test_return ==
    /\ pc = "test_loop"
    /\ i = Len(segments)
    /\ pc' = "done"
    /\ result' = [kind |-> "case", case |-> case_data]
    /\ UNCHANGED << prog, CONFIG, alpha, raw_text, detected_court, text, segments, i,
                    current_author, seen_first_judge, case_data, calls, memo >>
    /\ UNCHANGED others

(***************************************************************************)
(* The caller.                                                             *)
(***************************************************************************)
\* the caller takes the result; the frame of the call is gone
Finish ==
    /\ pc = "done"
    /\ pc' = "idle"
    /\ raw_text' = <<>>
    /\ SetLocals(NoLocals)
    /\ result' = NoResult
    /\ calls' = NoCalls
    /\ UNCHANGED << prog, CONFIG, alpha, memo >>
    /\ UNCHANGED others

Next ==
    \/ Start
    \/ process_document
    \/ parse_seriatim_judgment
    \/ seriatim_loop
    \/ seriatim_return
    \/ parse_unitary_judgment
    \/ test_process_document
    \/ test_loop
    \/ test_return
    \/ Finish

Spec == Init /\ [][Next]_vars

(***************************************************************************)
(* The same process, parsing documents again: the caller may remember one  *)
(* document with its result (memo), and the frame of a finished call stays *)
(* as the call left it until the next call writes to it.                   *)
(***************************************************************************)
InitReplay ==
    /\ alpha = "replay"
    /\ InitCommon

Remember ==
    /\ pc = "done"
    /\ pc' = "idle"
    /\ \E keep \in BOOLEAN :
          memo' = IF keep
                  THEN [memo EXCEPT !.other = @ \/ (memo.set /\ memo.raw_text # raw_text)]
                  ELSE [set |-> TRUE, raw_text |-> raw_text, result |-> result,
                        other |-> FALSE]
    /\ raw_text' = <<>>
    /\ result' = NoResult
    /\ calls' = NoCalls
    /\ UNCHANGED << prog, CONFIG, alpha, detected_court, text, segments, i,
                    current_author, seen_first_judge, case_data >>
    /\ UNCHANGED others

NextReplay ==
    \/ Start
    \/ process_document
    \/ parse_seriatim_judgment
    \/ seriatim_loop
    \/ seriatim_return
    \/ parse_unitary_judgment
    \/ test_process_document
    \/ test_loop
    \/ test_return
    \/ Remember

SpecReplay == InitReplay /\ [][NextReplay]_vars

(***************************************************************************)
(* Direct calls of the paragraph-level functions: the section classifier,  *)
(* the citation extractor and the paragraph segmenter, on arguments drawn  *)
(* from small sets.  fcall holds the arguments and, once the function has  *)
(* returned, the returned value.                                           *)
(***************************************************************************)
MaxContentLen == 4
MaxSpanLen == 4

\* the most files of a dataset, paragraphs of a file, and hits of a search
MaxFiles == 2

MaxParagraphs == 3

MaxHits == 2

\* the most words of a highlighted text
MaxWords == 6

\* supabase_ingestion.py: `if len(para.text) < 10: continue`
MinTextLen == 10

\* gptsm_lite.py: the number of rounds, and of responses asked for in a round
MAX_DEPTH == 3

N == 3

\* the state of the document parser
parser_vars ==
    << prog, CONFIG, alpha, pc, raw_text, detected_court, text, segments, i,
       current_author, seen_first_judge, case_data, result, calls, memo >>

\* paragraph numbers around the two thresholds
ParaNums == {1, 9, 10, 24, 25, 26, 30}

\* paragraph bodies as the segmenter passes them: trimmed and not empty
Contents ==
    { c \in UNION { [1..n -> {"BACKGROUND", "COA", "REASONS", "LONG", "NL"}] :
                        n \in 1..MaxContentLen } : Strip(c) = c }

\* text spans for the citation extractor
Spans == UNION { [1..n -> {"CITE", "7", "SP", "LONG"}] : n \in 0..MaxSpanLen }

\* text blocks for the paragraph segmenter: numbered paragraphs after a line
\* break, as a body segment has them after its header
Blocks == { << "NL" >> \o Flatten(d) : d \in Docs("sections") \cup Docs("override") }

\* the calls made, before they return
Calls ==
    [fn : {"classify_section"}, para_num : ParaNums, content : Contents,
     is_lead : BOOLEAN, returned : {FALSE}, ret : {"pending"}]
    \cup
    [fn : {"extract_citations"}, content : Spans, returned : {FALSE}, ret : {"pending"}]
    \cup
    [fn : {"split_into_paragraphs"}, content : Blocks,
     author : {<< "LORD", "SP", "REED" >>}, opinion_type : {"majority", "concurring"},
     is_lead : BOOLEAN, returned : {FALSE}, ret : {"pending"}]

\* section_type = classify_section(para_num, content, is_lead=is_lead)
call_classify_section ==
    /\ prog = "self"
    /\ fcall.fn = "classify_section"
    /\ ~fcall.returned
    /\ fcall' = [fcall EXCEPT
                    !.returned = TRUE,
                    !.ret = classify_section(fcall.para_num, fcall.content, fcall.is_lead)]
    /\ UNCHANGED << parser_vars, parked, corpus_documents, res >>

\* citations_found = extract_citations(content)
call_extract_citations ==
    /\ fcall.fn = "extract_citations"
    /\ ~fcall.returned
    /\ fcall' = [fcall EXCEPT
                    !.returned = TRUE,
                    !.ret = IF prog = "config" THEN extract_citations(CONFIG, fcall.content)
                                               ELSE test_extract_citations(fcall.content)]
    /\ UNCHANGED << parser_vars, parked, corpus_documents, res >>

\* new_chunks = split_into_paragraphs(segment, current_author, opinion_type,
\* is_lead); ret.raised: the call raised ValueError
call_split_into_paragraphs ==
    /\ fcall.fn = "split_into_paragraphs"
    /\ ~fcall.returned
    /\ fcall' = [fcall EXCEPT
                    !.returned = TRUE,
                    !.ret = IF prog = "config"
                            THEN split_into_paragraphs(CONFIG, fcall.content, fcall.author,
                                     fcall.opinion_type, fcall.is_lead, 0)
                            ELSE [chunks |-> test_split_into_paragraphs(fcall.content,
                                                 fcall.author, fcall.opinion_type,
                                                 fcall.is_lead, 0),
                                  raised |-> FALSE]]
    /\ UNCHANGED << parser_vars, parked, corpus_documents, res >>

InitCalls ==
    /\ alpha = "sections"
    /\ prog \in {"config", "self"}
    /\ CONFIG \in Configs
    /\ prog = "self" => CONFIG.courts[1] = SupremeCourt
    /\ pc = "idle"
    /\ raw_text = << >>
    /\ detected_court = 0
    /\ text = << >>
    /\ segments = << >>
    /\ i = 0
    /\ current_author = << >>
    /\ seen_first_judge = FALSE
    /\ case_data = EmptyCase
    /\ result = NoResult
    /\ calls = NoCalls
    /\ memo = NoMemo
    /\ parked = NoFrame
    /\ fcall \in Calls
    /\ corpus_documents = << >>
    /\ res = NoRes

NextCalls ==
    \/ call_classify_section
    \/ call_extract_citations
    \/ call_split_into_paragraphs

SpecCalls == InitCalls /\ [][NextCalls]_vars

(***************************************************************************)
(* Two worker threads that call process_document on documents of their     *)
(* own, with no lock.  Every variable of process_document and of the parse *)
(* strategies is a local of the call, so each thread has its own; CONFIG   *)
(* is the one object both threads reach.  The variables of the module hold *)
(* the frame of the running thread, parked the frame of the other one.     *)
(***************************************************************************)
\* the frame of the running thread
frame ==
    [pc |-> pc, raw_text |-> raw_text, locals |-> locals, result |-> result,
     calls |-> calls]

\* a bug: current_author is one variable of the module, not a local of the
\* call, so a thread finds in it what the other thread wrote last
resume_shared_author(f) == [f.locals EXCEPT !.current_author = current_author]

\* the locals a thread finds when it runs again: the ones it left
resume(f) == f.locals

\* the scheduler stops the running thread, at any point, and runs the other;
\* calls.switched records that a thread was stopped in the middle of a call
Yield ==
    /\ parked' = [frame EXCEPT !.calls.switched = @ \/ (pc \notin {"idle", "done"})]
    /\ pc' = parked.pc
    /\ raw_text' = parked.raw_text
    /\ SetLocals(resume(parked))
    /\ result' = parked.result
    /\ calls' = parked.calls
    /\ UNCHANGED << prog, CONFIG, alpha, memo, fcall, corpus_documents, res >>

InitWorkers ==
    /\ alpha = "workers"
    /\ InitCommon

NextWorkers ==
    \/ Start
    \/ process_document
    \/ parse_seriatim_judgment
    \/ seriatim_loop
    \/ seriatim_return
    \/ parse_unitary_judgment
    \/ test_process_document
    \/ test_loop
    \/ test_return
    \/ Finish
    \/ Yield

SpecWorkers == InitWorkers /\ [][NextWorkers]_vars

(***************************************************************************)
(* One call of process_document run from start to end with nothing in      *)
(* between: the loops over the segments as functions.                      *)
(***************************************************************************)
RECURSIVE seriatim_fold(_, _, _, _, _)
\* the loop of parse_seriatim_judgment from segment n (counted from 0) on
seriatim_fold(cfg, segs, n, author, chunks) ==
    IF n = Len(segs) THEN [raised |-> FALSE, chunks |-> chunks]
    ELSE LET segment == segs[n + 1]
         IN  IF is_header_segment(segment.s)
             THEN seriatim_fold(cfg, segs, n + 1, Strip(segment.s), chunks)
             ELSE IF StrLen(Strip(segment.s)) > MinSegmentLen
             THEN LET opinion_type == seriatim_opinion(n, author)
                      new == split_into_paragraphs(cfg, segment.s, author, opinion_type,
                                                   opinion_type = "majority", segment.off)
                  IN  IF new.raised THEN [raised |-> TRUE, chunks |-> << >>]
                      ELSE seriatim_fold(cfg, segs, n + 1, author,
                                         extend(chunks, new.chunks))
             ELSE seriatim_fold(cfg, segs, n + 1, author, chunks)

RECURSIVE test_fold(_, _, _, _, _)
\* the loop of the self-contained process_document from segment n on
test_fold(segs, n, author, seen, chunks) ==
    IF n = Len(segs) THEN chunks
    ELSE LET segment == segs[n + 1]
             block == Strip(segment.s)
         IN  IF test_is_header_segment(segment.s)
             THEN test_fold(segs, n + 1, RStripColon(Strip(segment.s)), seen, chunks)
             ELSE IF StrLen(block) < MinSegmentLen
             THEN test_fold(segs, n + 1, author, seen, chunks)
             ELSE LET is_lead == ~seen
                      new_chunks == test_split_into_paragraphs(block, author,
                                        test_opinion(is_lead, author, block), is_lead,
                                        segment.off + LeadingSpace(segment.s))
                  IN  test_fold(segs, n + 1, author,
                                seen_first_judge_after(seen, new_chunks, is_lead),
                                extend(chunks, new_chunks))

\* what process_document(raw) returns or raises when it runs alone
ParseAlone(raw) ==
    IF prog = "self"
    THEN LET l == test_entry(NoLocals, raw)
         IN  [kind |-> "case",
              case |-> [l.case_data EXCEPT
                           !.chunks = test_fold(l.segments, 0, l.current_author,
                                                FALSE, << >>)]]
    ELSE LET detected == detect_court(CONFIG.courts, raw, 1)
             route == route_of(CONFIG.courts, detected)
         IN  IF route = "return None" THEN [kind |-> "None", case |-> EmptyCase]
             ELSE IF route = "parse_seriatim_judgment"
             THEN LET l == seriatim_entry(NoLocals, CONFIG, raw, CONFIG.courts[detected])
                      f == seriatim_fold(CONFIG, l.segments, 0, l.current_author, << >>)
                  IN  IF f.raised THEN [kind |-> "ValueError", case |-> EmptyCase]
                      ELSE [kind |-> "case",
                            case |-> [l.case_data EXCEPT !.chunks = f.chunks]]
             ELSE LET c == unitary_call(raw)
                      new == split_into_paragraphs(CONFIG, c.text_block, c.author,
                                                   c.opinion_type, c.is_lead, 0)
                  IN  IF new.raised THEN [kind |-> "ValueError", case |-> EmptyCase]
                      ELSE [kind |-> "case",
                            case |-> [citation |-> find_main_citation(raw,
                                          CONFIG.courts[detected].identification_regex),
                                      court_level |-> CONFIG.courts[detected].db_code,
                                      chunks |-> extend(<< >>, new.chunks)]]

(***************************************************************************)
(* The corpus table and the retrieval service.  process_final_dataset      *)
(* writes one row per paragraph into corpus_documents; the store reads the *)
(* neighbours of a row by its sentence_index; SentenceRetriever.query      *)
(* returns each search hit with its next and previous row.  A row keeps    *)
(* the columns the neighbour lookup reads (id, doc_id, section_title,      *)
(* sentence_index) and text and global_index; the embedding, by which the  *)
(* search picks its hits, is left out, so a search may return any rows.    *)
(***************************************************************************)
\* the stems of the XML files, in the order the folder lists them
DocIds == << "a", "b", "c" >>

\* the text of one <paragraph>: a stub of 1 character, or 10 characters
ParaTexts == { << "7" >>, << "SHORT" >> }

\* an XML file as parse_xml_paragraphs returns it: its paragraphs with text
Files == UNION { [1..n -> ParaTexts] : n \in 0..MaxParagraphs }

Datasets == UNION { [1..n -> Files] : n \in 1..MaxFiles }

\* the offset a caller of query passes (0 when it passes none)
Offsets == {0, 1}

EmptyDocument ==
    [id |-> -1, doc_id |-> "", text |-> << >>, section_title |-> "",
     sentence_index |-> 0, global_index |-> 0]

RECURSIVE file_documents(_, _, _, _)
\* the rows of the paragraphs of one file from sentence_idx on; global_index
\* counts the rows made so far
file_documents(doc_id, paragraphs, sentence_idx, global_index) ==
    IF sentence_idx = Len(paragraphs) THEN << >>
    ELSE LET para == paragraphs[sentence_idx + 1]
         IN  IF StrLen(para) < MinTextLen
             THEN file_documents(doc_id, paragraphs, sentence_idx + 1, global_index)
             ELSE << [doc_id |-> doc_id, text |-> para, section_title |-> "Main",
                      sentence_index |-> sentence_idx, global_index |-> global_index] >>
                  \o file_documents(doc_id, paragraphs, sentence_idx + 1, global_index + 1)

RECURSIVE dataset_documents(_, _, _)
\* the rows of the files from file n on
dataset_documents(files, n, global_index) ==
    IF n > Len(files) THEN << >>
    ELSE LET documents == file_documents(DocIds[n], files[n], 0, global_index)
         IN  documents \o dataset_documents(files, n + 1, global_index + Len(documents))

\* the table after the rows are inserted into it: the database numbers them
insert_batch(table, documents) ==
    table \o [k \in 1..Len(documents) |->
                 [id |-> Len(table) + k,
                  doc_id |-> documents[k].doc_id,
                  text |-> documents[k].text,
                  section_title |-> documents[k].section_title,
                  sentence_index |-> documents[k].sentence_index,
                  global_index |-> documents[k].global_index]]

\* the whole ingestion of a dataset into the empty table
process_final_dataset ==
    /\ corpus_documents = << >>
    /\ \E files \in Datasets :
          corpus_documents' = insert_batch(corpus_documents,
                                           dataset_documents(files, 1, 0))
    /\ UNCHANGED << parser_vars, parked, fcall, res >>

\* SupabaseSentenceStore.get_offset
get_offset(table, id, offset) ==
    LET found == { p \in 1..Len(table) : table[p].id = id }
    IN  IF found = {} THEN EmptyDocument
        ELSE LET current == table[CHOOSE p \in found : TRUE]
                 new_index == current.sentence_index + offset
                 data == { p \in 1..Len(table) :
                              /\ table[p].doc_id = current.doc_id
                              /\ table[p].section_title = current.section_title
                              /\ table[p].sentence_index = new_index }
             IN  IF data = {} THEN EmptyDocument
                 ELSE table[CHOOSE p \in data : \A q \in data : p <= q]

get_next_sentence(table, id) == get_offset(table, id, 1)

get_previous_sentence(table, id) == get_offset(table, id, -1)

\* what a search may return: up to MaxHits rows of the table, by id
Targets(table) ==
    { t \in UNION { [1..n -> 1..Len(table)] : n \in 0..MaxHits } :
         \A a, b \in 1..Len(t) : a # b => t[a] # t[b] }

\* SentenceRetriever.query
query ==
    /\ corpus_documents # << >>
    /\ \E offset \in Offsets, targets \in Targets(corpus_documents) :
          res' = [offset |-> offset,
                  targets |-> targets,
                  out |-> [k \in 1..Len(targets) |->
                             LET target_sentence ==
                                     get_offset(corpus_documents, targets[k], offset)
                             IN  [target_sentence |-> target_sentence,
                                  next_sentence |->
                                      get_next_sentence(corpus_documents, target_sentence.id),
                                  previous_sentence |->
                                      get_previous_sentence(corpus_documents,
                                                            target_sentence.id)]]]
    /\ UNCHANGED << parser_vars, parked, fcall, corpus_documents >>

InitRetrieval ==
    /\ prog = "config"
    /\ CONFIG \in Configs
    /\ CONFIG.courts[1] = SupremeCourt
    /\ alpha = "route"
    /\ pc = "idle"
    /\ raw_text = << >>
    /\ detected_court = 0
    /\ text = << >>
    /\ segments = << >>
    /\ i = 0
    /\ current_author = << >>
    /\ seen_first_judge = FALSE
    /\ case_data = EmptyCase
    /\ result = NoResult
    /\ calls = NoCalls
    /\ memo = NoMemo
    /\ parked = NoFrame
    /\ fcall = NoCall
    /\ corpus_documents = << >>
    /\ res = NoRes

NextRetrieval ==
    \/ process_final_dataset
    \/ query

SpecRetrieval == InitRetrieval /\ [][NextRetrieval]_vars

(***************************************************************************)
(* SentenceRetriever.query step by step.  The search returns its hits; the *)
(* get_offset lookups of the hits run concurrently and are gathered; then  *)
(* the next and previous lookups of the target sentences run concurrently  *)
(* and are gathered; then the results are combined.  A lookup is a thread  *)
(* that completes at any time after it was started; its database request   *)
(* may raise, and get_offset then returns EmptyDocument.  The frame of the *)
(* call is the record res.                                                 *)
(***************************************************************************)
\* the similarity column of a hit: absent, or hundredths
Similarities == { << >>, << 40 >>, << 87 >> }

\* what the search returns: up to MaxHits rows by id, each with a similarity;
\* no hit at all when the search raised
Hits(table) ==
    UNION { { [k \in 1..Len(t) |-> [id |-> t[k], similarity |-> s[k]]] :
                s \in [1..Len(t) -> Similarities] } : t \in Targets(table) }

\* the ingestions a query is run against: one XML file
QueryDatasets == { files \in Datasets : Len(files) = 1 }

NoQuery ==
    [pc |-> "idle", offset |-> 0, targets |-> << >>, similarity_by_id |-> << >>,
     target_sentences |-> << >>, results |-> << >>, raised |-> FALSE,
     overtaken |-> FALSE, out |-> << >>]

\* similarity_by_id = {doc.id: (doc.similarity or 0.0) for doc in targets}
similarity_of(targets) ==
    [id \in { targets[k].id : k \in 1..Len(targets) } |->
        LET doc == targets[CHOOSE k \in 1..Len(targets) :
                              /\ targets[k].id = id
                              /\ \A j \in 1..Len(targets) : targets[j].id = id => j <= k]
        IN  IF doc.similarity = << >> THEN 0 ELSE doc.similarity[1]]

\* a bug: the similarity is looked up by the id of the target sentence
similarity_of_target_sentence(similarity_by_id, targets, target_sentences, n) ==
    IF target_sentences[n].id \in DOMAIN similarity_by_id
    THEN similarity_by_id[target_sentences[n].id] ELSE 0

\* similarity_by_id.get(targets[i].id, 0.0)
result_similarity(similarity_by_id, targets, target_sentences, n) ==
    IF targets[n].id \in DOMAIN similarity_by_id
    THEN similarity_by_id[targets[n].id] ELSE 0

\* a bug: the gathered values are kept in the order the lookups completed
gather_as_completed(values, k, value) ==
    LET first == CHOOSE j \in 1..Len(values) :
                    /\ values[j] = << >>
                    /\ \A h \in 1..Len(values) : values[h] = << >> => j <= h
    IN  [values EXCEPT ![first] = << value >>]

\* asyncio.gather: the value of the k-th awaitable is the k-th of the list
gather(values, k, value) == [values EXCEPT ![k] = << value >>]

\* some awaitable before the k-th has not completed yet
Overtakes(values, k) == \E j \in 1..(k - 1) : values[j] = << >>

\* query to the first gather: the search has returned, the lookups start
query_search ==
    /\ res.pc = "idle"
    /\ \E offset \in Offsets, targets \in Hits(corpus_documents) :
          res' = [res EXCEPT !.pc = "offsets",
                             !.offset = offset,
                             !.targets = targets,
                             !.similarity_by_id = similarity_of(targets),
                             !.target_sentences = [k \in 1..Len(targets) |-> << >>]]
    /\ UNCHANGED << parser_vars, parked, fcall, corpus_documents >>

\* the get_offset lookup of one hit completes: with the row, with
\* EmptyDocument, or with EmptyDocument because the database raised
get_offset_done ==
    /\ res.pc = "offsets"
    /\ \E k \in 1..Len(res.targets) :
          /\ res.target_sentences[k] = << >>
          /\ \E raises \in BOOLEAN :
                LET doc == IF raises THEN EmptyDocument
                           ELSE get_offset(corpus_documents, res.targets[k].id, res.offset)
                IN  res' = [res EXCEPT
                               !.target_sentences = gather(@, k, doc),
                               !.raised = @ \/ raises,
                               !.overtaken = @ \/ Overtakes(res.target_sentences, k)]
    /\ UNCHANGED << parser_vars, parked, fcall, corpus_documents >>

\* the first gather returns: the next and previous lookups start
offsets_gathered ==
    /\ res.pc = "offsets"
    /\ \A k \in 1..Len(res.targets) : res.target_sentences[k] # << >>
    /\ res' = [res EXCEPT
                  !.pc = "neighbours",
                  !.target_sentences = [k \in 1..Len(res.targets) |-> @[k][1]],
                  !.results = [k \in 1..Len(res.targets) |->
                                  [next |-> << >>, previous |-> << >>]]]
    /\ UNCHANGED << parser_vars, parked, fcall, corpus_documents >>

\* the lookups of the second gather lie in one row: the two of the first
\* target sentence, then the two of the second, ...
Lookups(results) ==
    [h \in 1..(2 * Len(results)) |->
        IF h % 2 = 1 THEN results[(h + 1) \div 2].next
                     ELSE results[h \div 2].previous]

\* the get_next_sentence lookup of one target sentence completes
get_next_sentence_done ==
    /\ res.pc = "neighbours"
    /\ \E k \in 1..Len(res.results) :
          /\ res.results[k].next = << >>
          /\ \E raises \in BOOLEAN :
                LET doc == IF raises THEN EmptyDocument
                           ELSE get_next_sentence(corpus_documents,
                                                  res.target_sentences[k].id)
                IN  res' = [res EXCEPT
                               !.results[k].next = << doc >>,
                               !.raised = @ \/ raises,
                               !.overtaken =
                                   @ \/ Overtakes(Lookups(res.results), 2 * k - 1)]
    /\ UNCHANGED << parser_vars, parked, fcall, corpus_documents >>

\* the get_previous_sentence lookup of one target sentence completes
get_previous_sentence_done ==
    /\ res.pc = "neighbours"
    /\ \E k \in 1..Len(res.results) :
          /\ res.results[k].previous = << >>
          /\ \E raises \in BOOLEAN :
                LET doc == IF raises THEN EmptyDocument
                           ELSE get_previous_sentence(corpus_documents,
                                                      res.target_sentences[k].id)
                IN  res' = [res EXCEPT
                               !.results[k].previous = << doc >>,
                               !.raised = @ \/ raises,
                               !.overtaken =
                                   @ \/ Overtakes(Lookups(res.results), 2 * k)]
    /\ UNCHANGED << parser_vars, parked, fcall, corpus_documents >>

\* the second gather returns and the results are combined
query_return ==
    /\ res.pc = "neighbours"
    /\ \A k \in 1..Len(res.results) :
          res.results[k].next # << >> /\ res.results[k].previous # << >>
    /\ res' = [res EXCEPT
                  !.pc = "returned",
                  !.out = [n \in 1..Len(res.target_sentences) |->
                             [target_sentence |-> res.target_sentences[n],
                              next_sentence |-> res.results[n].next[1],
                              previous_sentence |-> res.results[n].previous[1],
                              similarity |->
                                  result_similarity(res.similarity_by_id, res.targets,
                                                    res.target_sentences, n)]]]
    /\ UNCHANGED << parser_vars, parked, fcall, corpus_documents >>

InitQuery ==
    /\ prog = "config"
    /\ CONFIG \in Configs
    /\ CONFIG.courts[1] = SupremeCourt
    /\ alpha = "route"
    /\ pc = "idle"
    /\ raw_text = << >>
    /\ detected_court = 0
    /\ text = << >>
    /\ segments = << >>
    /\ i = 0
    /\ current_author = << >>
    /\ seen_first_judge = FALSE
    /\ case_data = EmptyCase
    /\ result = NoResult
    /\ calls = NoCalls
    /\ memo = NoMemo
    /\ parked = NoFrame
    /\ fcall = NoCall
    /\ \E files \in QueryDatasets :
          corpus_documents = insert_batch(<< >>, dataset_documents(files, 1, 0))
    /\ res = NoQuery

NextQuery ==
    \/ query_search
    \/ get_offset_done
    \/ offsets_gathered
    \/ get_next_sentence_done
    \/ get_previous_sentence_done
    \/ query_return

SpecQuery == InitQuery /\ [][NextQuery]_vars

(***************************************************************************)
(* The config-driven parser under a configuration that lists a court whose *)
(* structure_type is neither "seriatim" nor "unitary".                     *)
(***************************************************************************)
\* a profile of another structural kind, detected by pattern r
OtherCourt(r) ==
    [name |-> "Court of Session", identification_regex |-> r,
     structure_type |-> "panel", db_code |-> "CSIH"]

\* court lists with such a profile before a profile with the same pattern
ProfileConfigs ==
    { [courts |-> cs, parsing_rules |-> ParsingRules, section_patterns |-> SectionPatterns] :
        cs \in { << OtherCourt("CITE"), SupremeCourt, UpperTribunal >>,
                 << SupremeCourt, OtherCourt("TRIB"), UpperTribunal >>,
                 << UpperTribunal, OtherCourt("CITE"), SupremeCourt >> } }

InitProfiles ==
    /\ alpha = "route"
    /\ prog = "config"
    /\ CONFIG \in ProfileConfigs
    /\ pc = "idle"
    /\ raw_text = << >>
    /\ detected_court = 0
    /\ text = << >>
    /\ segments = << >>
    /\ i = 0
    /\ current_author = << >>
    /\ seen_first_judge = FALSE
    /\ case_data = EmptyCase
    /\ result = NoResult
    /\ calls = NoCalls
    /\ memo = NoMemo
    /\ parked = NoFrame
    /\ fcall = NoCall
    /\ corpus_documents = << >>
    /\ res = NoRes

NextProfiles ==
    \/ Start
    \/ process_document
    \/ parse_seriatim_judgment
    \/ seriatim_loop
    \/ seriatim_return
    \/ parse_unitary_judgment
    \/ Finish

SpecProfiles == InitProfiles /\ [][NextProfiles]_vars

(***************************************************************************)
(* The self-contained parser on judgments with a preamble, judge headers   *)
(* and blocks whose second paragraph starts with "Background".             *)
(***************************************************************************)
InitLead ==
    /\ alpha = "lead"
    /\ prog = "self"
    /\ CONFIG \in Configs
    /\ CONFIG.courts[1] = SupremeCourt
    /\ pc = "idle"
    /\ raw_text = << >>
    /\ detected_court = 0
    /\ text = << >>
    /\ segments = << >>
    /\ i = 0
    /\ current_author = << >>
    /\ seen_first_judge = FALSE
    /\ case_data = EmptyCase
    /\ result = NoResult
    /\ calls = NoCalls
    /\ memo = NoMemo
    /\ parked = NoFrame
    /\ fcall = NoCall
    /\ corpus_documents = << >>
    /\ res = NoRes

NextLead ==
    \/ Start
    \/ test_process_document
    \/ test_loop
    \/ test_return
    \/ Finish

SpecLead == InitLead /\ [][NextLead]_vars

(***************************************************************************)
(* gptsm_lite.py and the summarize-highlight endpoint of server.py.  A     *)
(* text is a sequence of words, each of WordLen letters, written with one  *)
(* space between them; a reply of the model may have a double quote,       *)
(* written QUOTE, at its ends.  A score is kept as the integer score *     *)
(* scale, where scale is a common denominator of the three scores of one   *)
(* round.  The frame of the request is the record fcall.                   *)
(***************************************************************************)
\* the words a highlighted text is made of
AllWords == << "court", "found", "claim", "valid", "under", "lease", "terms" >>

\* number of letters of each word
WordLen == 5

\* len(s) of a text with no quote in it
TextLen(s) == IF s = << >> THEN 0 ELSE Len(s) * WordLen + (Len(s) - 1)

\* set(s.lower().split())
WordSet(s) == { s[k] : k \in 1..Len(s) }

\* the highlighted texts of the requests: "" and the first words of AllWords
Texts == { SubSeq(AllWords, 1, n) : n \in 0..MaxWords }

\* strip_wrapping_quotes
strip_wrapping_quotes(s) ==
    IF s = << >> THEN s
    ELSE LET s1 == IF s[1] = "QUOTE" THEN Tail(s) ELSE s
         IN  IF s1 # << >> /\ s1[Len(s1)] = "QUOTE" THEN SubSeq(s1, 1, Len(s1) - 1)
             ELSE s1

\* a common denominator of the scores of a round: the scores are fractions
\* over the number of words of the original text, over the length of the
\* paragraph, and over 0.8 (4/5) and 0.1 (1/10) of it; the factor 2 leaves
\* room for one unit below every other score (see evaluate_on_paraphrasing)
score_scale(orig_paragraph, paragraph) ==
    8 * (IF TextLen(paragraph) = 0 THEN 1 ELSE TextLen(paragraph))
      * (IF WordSet(orig_paragraph) = {} THEN 1 ELSE Cardinality(WordSet(orig_paragraph)))

\* evaluate_on_meaning, times scale
evaluate_on_meaning(original, shortened, scale) ==
    IF WordSet(original) = {} THEN 0
    ELSE (scale * Cardinality(WordSet(original) \cap WordSet(shortened)))
             \div Cardinality(WordSet(original))

\* evaluate_on_paraphrasing, times scale: length_ratio = ls / lo.  For a
\* response as long as the paragraph the floating-point value of
\* 1.0 - (1.0 - 0.9) * 10 is 2.2e-16, not 0: it is kept as one unit.
evaluate_on_paraphrasing(original, shortened, scale) ==
    LET lo == TextLen(original)
        ls == TextLen(shortened)
    IN  IF ls = 0 THEN 0
        ELSE IF lo = 0 THEN 0
        ELSE IF 5 * ls >= 4 * lo /\ 10 * ls <= 9 * lo THEN scale
        ELSE IF 5 * ls < 4 * lo THEN (scale * 5 * ls) \div (4 * lo)
        ELSE IF ls > lo THEN 0
        ELSE IF ls = lo THEN 1
        ELSE (scale * 10 * (lo - ls)) \div lo

\* evaluate_on_length, times scale: reduction = 1 - ls / lo
evaluate_on_length(original, shortened, scale) ==
    LET lo == TextLen(original)
        ls == TextLen(shortened)
    IN  IF lo = 0 THEN 0
        ELSE IF 5 * ls >= 4 * lo /\ 10 * ls <= 9 * lo THEN scale
        ELSE IF 10 * ls > 9 * lo THEN (scale * 10 * (lo - ls)) \div lo
        ELSE IF 5 * ls <= 3 * lo THEN 0
        ELSE (scale * (5 * ls - 3 * lo)) \div lo

\* revert_paraphrasing
revert_paraphrasing(original, shortened) == shortened

\* one entry of response_infos
response_info(orig_paragraph, paragraph, response) ==
    LET scale == score_scale(orig_paragraph, paragraph)
        reverted == revert_paraphrasing(paragraph, response)
    IN  [response |-> response,
         reverted |-> reverted,
         composite_score |-> evaluate_on_meaning(orig_paragraph, reverted, scale)
                             + evaluate_on_paraphrasing(paragraph, response, scale)
                             + evaluate_on_length(paragraph, reverted, scale),
         scale |-> scale]

\* a bug: the sort is ascending, the lowest score comes first
best_response_lowest(orig_paragraph, paragraph, responses) ==
    LET infos == [k \in 1..Len(responses) |->
                     response_info(orig_paragraph, paragraph, responses[k])]
    IN  infos[CHOOSE k \in 1..Len(infos) :
                 \A j \in 1..Len(infos) :
                     \/ infos[k].composite_score < infos[j].composite_score
                     \/ (infos[k].composite_score = infos[j].composite_score /\ k <= j)]

\* response_infos[0] after the stable sort by composite_score, highest first
best_response(orig_paragraph, paragraph, responses) ==
    LET infos == [k \in 1..Len(responses) |->
                     response_info(orig_paragraph, paragraph, responses[k])]
    IN  infos[CHOOSE k \in 1..Len(infos) :
                 \A j \in 1..Len(infos) :
                     \/ infos[k].composite_score > infos[j].composite_score
                     \/ (infos[k].composite_score = infos[j].composite_score /\ k <= j)]

\* best_response['composite_score'] < 1.5
below_threshold(info) == 2 * info.composite_score < 3 * info.scale

\* what the model may answer to the prompt for a paragraph: the paragraph, the
\* paragraph without its last word (bare, in quotes, with an opening quote
\* only), its first word, nothing, another word
DropLast(s) == IF s = << >> THEN s ELSE SubSeq(s, 1, Len(s) - 1)

ModelReplies(paragraph) ==
    { paragraph,
      DropLast(paragraph),
      << "QUOTE" >> \o DropLast(paragraph) \o << "QUOTE" >>,
      << "QUOTE" >> \o DropLast(paragraph),
      SubSeq(paragraph, 1, IF paragraph = << >> THEN 0 ELSE 1),
      << >>,
      << "other" >> }

\* the requests of the endpoint, before it has handled them; store says which
\* of the writes of the text_highlights table fails during the request
SummarizeRequests ==
    [fn : {"summarize_highlight"}, text : Texts, user_id : {"u1", ""},
     store : {"ok", "insert_fails", "update_fails"},
     pc : {"request"}, cur_depth : {0}, best_responses : {<< >>},
     paragraph : {<< >>}, responses : {<< >>}, model_calls : {0}, failed : {FALSE},
     highlight : {<< >>}, result : {<< >>}, response : {<< >>}]

\* summarize_highlight up to the call of summarize_text, and the statements
\* of get_shortened_paragraph before its loop
summarize_highlight ==
    /\ fcall.fn = "summarize_highlight"
    /\ fcall.pc = "request"
    /\ fcall' = IF fcall.text = << >> \/ fcall.user_id = ""
                THEN [fcall EXCEPT !.pc = "responded",
                                   !.response = << [status |-> 400] >>]
                ELSE IF fcall.store = "insert_fails"
                THEN [fcall EXCEPT !.pc = "responded",
                                   !.response = << [status |-> 500] >>]
                ELSE [fcall EXCEPT !.pc = "round",
                                   !.highlight = << [highlighted_text |-> fcall.text,
                                                     summarization |-> << >>] >>,
                                   !.cur_depth = 0,
                                   !.best_responses = << fcall.text >>,
                                   !.paragraph = fcall.text,
                                   !.responses = << >>]
    /\ UNCHANGED << parser_vars, parked, corpus_documents, res >>

\* a bug: a failed call loses the versions of the earlier rounds too
call_failed_loses_versions(f) ==
    [f EXCEPT !.pc = "shortened", !.responses = << >>, !.best_responses = << >>,
              !.failed = TRUE, !.model_calls = @ + 1]

\* a call of the model raises: the inner handler raises again, the outer one
\* leaves the loop
call_failed(f) ==
    [f EXCEPT !.pc = "shortened", !.responses = << >>, !.failed = TRUE,
              !.model_calls = @ + 1]

\* one call of the model in a round: it answers, or it raises
model_call ==
    /\ fcall.fn = "summarize_highlight"
    /\ fcall.pc = "round"
    /\ Len(fcall.responses) < N
    /\ \/ \E reply \in ModelReplies(fcall.paragraph) :
             fcall' = [fcall EXCEPT
                          !.responses = Append(@, strip_wrapping_quotes(reply)),
                          !.model_calls = @ + 1]
       \/ fcall' = call_failed(fcall)
    /\ UNCHANGED << parser_vars, parked, corpus_documents, res >>

\* the rest of a round, after the N calls: the scores, the best response, and
\* the two ways out of the loop
score_round ==
    /\ fcall.fn = "summarize_highlight"
    /\ fcall.pc = "round"
    /\ Len(fcall.responses) = N
    /\ LET best == best_response(fcall.text, fcall.paragraph, fcall.responses)
       IN  fcall' = [fcall EXCEPT
                        !.cur_depth = @ + 1,
                        !.best_responses = Append(@, best.reverted),
                        !.paragraph = best.reverted,
                        !.responses = << >>,
                        !.pc = IF below_threshold(best) \/ fcall.cur_depth + 1 >= MAX_DEPTH
                               THEN "shortened" ELSE "round"]
    /\ UNCHANGED << parser_vars, parked, corpus_documents, res >>

\* summarize_text after get_shortened_paragraph has returned
summarize_text ==
    /\ fcall.fn = "summarize_highlight"
    /\ fcall.pc = "shortened"
    /\ LET shortened_versions == fcall.best_responses
       IN  fcall' = [fcall EXCEPT
                        !.pc = "summarized",
                        !.result =
                            IF shortened_versions = << >>
                            THEN << [summarization |-> fcall.text,
                                     original_length |-> TextLen(fcall.text),
                                     summarized_length |-> TextLen(fcall.text),
                                     error |-> "Failed to generate summarization"] >>
                            ELSE << [summarization |->
                                         shortened_versions[Len(shortened_versions)],
                                     original_length |-> TextLen(fcall.text),
                                     summarized_length |->
                                         TextLen(shortened_versions[Len(shortened_versions)]),
                                     error |-> ""] >>]
    /\ UNCHANGED << parser_vars, parked, corpus_documents, res >>

\* summarize_highlight after summarize_text has returned: the row is updated
\* and the response is made, or the update raises and the answer is 500
summarize_highlight_return ==
    /\ fcall.fn = "summarize_highlight"
    /\ fcall.pc = "summarized"
    /\ LET summary == fcall.result[1]
       IN  fcall' = IF fcall.store = "update_fails"
                    THEN [fcall EXCEPT !.pc = "responded",
                                       !.response = << [status |-> 500] >>]
                    ELSE
                    [fcall EXCEPT
                        !.pc = "responded",
                        !.highlight = << [highlighted_text |-> fcall.text,
                                          summarization |-> << summary.summarization >>] >>,
                        !.response = << [status |-> 200,
                                         summarization |-> summary.summarization,
                                         original_length |-> summary.original_length,
                                         summarized_length |-> summary.summarized_length] >>]
    /\ UNCHANGED << parser_vars, parked, corpus_documents, res >>

InitSummary ==
    /\ alpha = "route"
    /\ prog = "config"
    /\ CONFIG \in Configs
    /\ CONFIG.courts[1] = SupremeCourt
    /\ pc = "idle"
    /\ raw_text = << >>
    /\ detected_court = 0
    /\ text = << >>
    /\ segments = << >>
    /\ i = 0
    /\ current_author = << >>
    /\ seen_first_judge = FALSE
    /\ case_data = EmptyCase
    /\ result = NoResult
    /\ calls = NoCalls
    /\ memo = NoMemo
    /\ parked = NoFrame
    /\ fcall \in SummarizeRequests
    /\ corpus_documents = << >>
    /\ res = NoRes

NextSummary ==
    \/ summarize_highlight
    \/ model_call
    \/ score_round
    \/ summarize_text
    \/ summarize_highlight_return

\* every call of the model returns or raises, and the endpoint runs on
SpecSummary == InitSummary /\ [][NextSummary]_vars /\ WF_vars(NextSummary)

(***************************************************************************)
(* Properties.                                                             *)
(***************************************************************************)
\* the process is inside or after a call of the config-driven process_document
\* that has passed the court detection
Routed == prog = "config" /\ pc \notin {"idle", "called"}

\* court j's detection pattern matches somewhere in raw_text
CourtMatches(j) ==
    \E p \in 1..Len(raw_text) :
        PhraseMatchEnd(CONFIG.courts[j].identification_regex, raw_text, p) # 0

Chunks == case_data.chunks

\* C1: when no configured court's detection pattern matches the document,
\* process_document returns None, raises nothing, and calls neither parse
\* strategy nor the paragraph segmenter.
C1_NoMatchReturnsNone ==
    (Routed /\ \A j \in 1..Len(CONFIG.courts) : ~CourtMatches(j))
        => /\ pc = "done"
           /\ result.kind = "None"
           /\ calls = NoCalls
           /\ Chunks = <<>>

C1_Witness ==
    /\ Routed
    /\ \A j \in 1..Len(CONFIG.courts) : ~CourtMatches(j)
    /\ \E p \in 1..Len(raw_text) : raw_text[p] = "LONG"
    /\ result.kind = "None"

\* the first court, in configuration order, whose pattern matches (0: none)
FirstMatchingCourt ==
    IF \E j \in 1..Len(CONFIG.courts) : CourtMatches(j)
    THEN CHOOSE j \in 1..Len(CONFIG.courts) :
            CourtMatches(j) /\ \A k \in 1..(j - 1) : ~CourtMatches(k)
    ELSE 0

\* C2: the first profile in configuration order whose pattern matches is
\* selected, even when later ones match too; the seriatim parser runs iff its
\* kind is seriatim, the unitary parser iff it is unitary, exactly one of them
\* runs, and a returned case carries the selected profile's court code.
C2_FirstMatchDispatch ==
    Routed =>
        /\ detected_court = FirstMatchingCourt
        /\ detected_court # 0 =>
              LET kind == CONFIG.courts[detected_court].structure_type
              IN  /\ (calls.seriatim = 1) <=> (kind = "seriatim")
                  /\ (calls.unitary = 1) <=> (kind = "unitary")
                  /\ calls.seriatim + calls.unitary = 1
                  /\ (pc = "parse_seriatim_judgment" \/ pc = "seriatim_loop")
                        => kind = "seriatim"
                  /\ pc = "parse_unitary_judgment" => kind = "unitary"
                  /\ result.kind = "case" =>
                        result.case.court_level = CONFIG.courts[detected_court].db_code

\* both courts match, the one listed first occurs later in the text
C2_Witness ==
    /\ Routed
    /\ pc = "done"
    /\ result.kind = "case"
    /\ \A j \in 1..Len(CONFIG.courts) : CourtMatches(j)
    /\ detected_court = 1
    /\ PhraseSearchFrom(CONFIG.courts[2].identification_regex, raw_text, 1)
          < PhraseSearchFrom(CONFIG.courts[1].identification_regex, raw_text, 1)
    /\ result.case.court_level = CONFIG.courts[1].db_code

\* C3: in every chunk of either parser, has_citation is true exactly when
\* cited_cases is not empty.
C3_HasCitationIffCited ==
    \A k \in 1..Len(Chunks) :
        Chunks[k].has_citation <=> Len(Chunks[k].cited_cases) > 0

C3_Witness ==
    /\ pc = "done"
    /\ \E k \in 1..Len(Chunks) : Chunks[k].has_citation /\ Chunks[k].cited_cases # <<>>
    /\ \E k \in 1..Len(Chunks) : ~Chunks[k].has_citation /\ Chunks[k].cited_cases = <<>>

\* C4: the chunks are in document order: a chunk earlier in the list starts
\* earlier in the source text, across judge segments and whatever the authors
\* and the paragraph numbers are.
C4_ChunksInDocumentOrder ==
    /\ \A a \in 1..Len(Chunks) :
          Chunks[a].pos \in 1..Len(raw_text) /\ IsDigit(raw_text[Chunks[a].pos])
    /\ \A a, b \in 1..Len(Chunks) : a < b => Chunks[a].pos < Chunks[b].pos

\* chunks of two authors, the later one with a number that is not larger
C4_Witness ==
    /\ pc = "done"
    /\ \E a, b \in 1..Len(Chunks) :
          /\ a < b
          /\ Chunks[a].author_name # Chunks[b].author_name
          /\ Chunks[a].para_number >= Chunks[b].para_number

\* C5: parsing the same text again with the same configuration gives the
\* same result, field by field, whatever was parsed in between.
C5_SameTextSameResult ==
    (pc = "done" /\ memo.set /\ memo.raw_text = raw_text) => result = memo.result

\* a document parsed, another one parsed after it, the first one parsed again
C5_Witness ==
    /\ pc = "done"
    /\ memo.set
    /\ memo.other
    /\ memo.raw_text = raw_text
    /\ result.kind = "case"
    /\ result.case.chunks # <<>>

\* the number token that starts at index pos of the document
TokenAt(pos) == SubSeq(raw_text, pos, SkipDigits(raw_text, pos) - 1)

RECURSIVE KeptNumbers(_, _)
\* the values of the number tokens of a split that the segmenter keeps: all of
\* them in the config-driven parser; in the self-contained parser those that
\* int() accepts and whose body is not empty
KeptNumbers(parts, k) ==
    IF k > Len(parts) THEN <<>>
    ELSE (IF /\ \A n \in 1..Len(parts[k].s) : parts[k].s[n] \in DigitSyms
             /\ (prog = "config" \/ Strip(parts[k + 1].s) # <<>>)
          THEN << DecimalValue(parts[k].s, 0) >>
          ELSE <<>>)
         \o KeptNumbers(parts, k + 2)

ChunkNumbers == [k \in 1..Len(Chunks) |-> Chunks[k].para_number]

\* C6: a chunk's paragraph number is the integer value of the number token
\* that introduced it, and the numbers of a block come out in the order and
\* multiplicity of its tokens: nothing is reordered, renumbered, dropped as a
\* repeat or rejected for being out of order.
C6_NumberIsTokenValue ==
    /\ \A k \in 1..Len(Chunks) :
          LET pos == Chunks[k].pos
              tok == TokenAt(pos)
          IN  /\ tok # <<>>
              /\ \A n \in 1..Len(tok) : tok[n] \in DigitSyms
              /\ (pos = 1 \/ ~IsDigit(raw_text[pos - 1]))
              /\ Chunks[k].para_number = DecimalValue(tok, 0)
    /\ (pc = "done" /\ result.kind = "case" /\ Len(calls.segmenter) = 1)
          => ChunkNumbers = KeptNumbers(ParaSplit(calls.segmenter[1].text_block), 2)

\* numbers that go down, a repeated number, and a token with a leading zero
C6_Witness ==
    /\ pc = "done"
    /\ result.kind = "case"
    /\ Len(calls.segmenter) = 1
    /\ \E a, b \in 1..Len(Chunks) : a < b /\ Chunks[a].para_number > Chunks[b].para_number
    /\ \E a, b \in 1..Len(Chunks) : a < b /\ Chunks[a].para_number = Chunks[b].para_number
    /\ \E a \in 1..Len(Chunks) : Len(TokenAt(Chunks[a].pos)) = 2 /\ Chunks[a].para_number = 7

\* C7: a number token that int() cannot parse makes the segmenter drop that
\* pair only: no exception leaves the parser and the other pairs of the block
\* are emitted in order.
C7_MalformedNumberDropped ==
    (pc = "done" /\ calls.segmenter # <<>>)
        => /\ result.kind = "case"
           /\ Len(calls.segmenter) = 1
                 => ChunkNumbers = KeptNumbers(ParaSplit(calls.segmenter[1].text_block), 2)

\* the self-contained parser alone does what C7 says
C7_SelfContainedDrops == prog = "self" => C7_MalformedNumberDropped

\* C8: the unitary parser calls the segmenter once, on the whole text, as
\* author "Tribunal Panel" with opinion "majority" and is_lead true; header
\* lines change nothing, every chunk has that author, and when no paragraph
\* matches a dissent indicator every chunk is "majority".
C8_UnitaryOneBlock ==
    (Routed /\ pc = "done" /\ calls.unitary = 1) =>
        /\ calls.seriatim = 0
        /\ calls.segmenter =
              << [text_block |-> raw_text, author |-> << "Tribunal Panel" >>,
                  opinion_type |-> "majority", is_lead |-> TRUE, i |-> 0] >>
        /\ result.kind = "case"
        /\ result.case.chunks = Chunks
        /\ \A k \in 1..Len(Chunks) : Chunks[k].author_name = << "Tribunal Panel" >>
        /\ (\A k \in 1..Len(Chunks) : ~DissentSubstringIn(Chunks[k].content_text))
              => \A k \in 1..Len(Chunks) : Chunks[k].opinion_type = "majority"
        /\ Len(Chunks) = (Len(ParaSplit(raw_text)) - 1) \div 2

\* a judge header line between two paragraphs of a tribunal decision
C8_Witness ==
    /\ Routed
    /\ pc = "done"
    /\ calls.unitary = 1
    /\ Len(Chunks) >= 2
    /\ \E p \in 1..Len(raw_text) :
          /\ JudgeMatch(raw_text, p, TRUE).e # 0
          /\ Chunks[1].pos < p
          /\ p < Chunks[2].pos
    /\ \A k \in 1..Len(Chunks) : Chunks[k].opinion_type = "majority"

\* a judge header line starts at index p of the text being parsed
HeaderLineAt(p) == JudgeMatch(text, p, TRUE).e # 0

\* the header line without its colon
HeaderText(p) == SubSeq(text, p, JudgeMatch(text, p, TRUE).c - 1)

\* the author the document gives the paragraph at pos: the text of the last
\* header line before it, or the parser's "unknown" sentinel
AuthorInDocument(pos) ==
    LET hs == { p \in 1..(pos - 1) : HeaderLineAt(p) }
    IN  IF hs = {}
        THEN (IF prog = "self" THEN << "Unknown Judge" >> ELSE << "Unknown" >>)
        ELSE HeaderText(CHOOSE p \in hs : \A q \in hs : q <= p)

\* the parse in progress splits on judge headers
SeriatimParse ==
    \/ prog = "self" /\ pc \in {"test_loop", "done"}
    \/ prog = "config" /\ pc \in {"seriatim_loop", "done"} /\ calls.seriatim = 1

\* the header test each parser applies to a segment
TreatedAsHeader(segment) ==
    IF prog = "self" THEN test_is_header_segment(segment) ELSE is_header_segment(segment)

\* C9: every judge header line is recognised as a header segment after the
\* split and sets the current author; each chunk's author is the text of the
\* last header line before it, and the "unknown" sentinel only before the first
\* header.
C9_AuthorIsLastHeader ==
    SeriatimParse =>
        /\ \A p \in 1..Len(text) :
              HeaderLineAt(p) =>
                  \E j \in 1..Len(segments) :
                      segments[j].off = p - 1 /\ TreatedAsHeader(segments[j].s)
        /\ \A k \in 1..Len(Chunks) :
              Chunks[k].author_name = AuthorInDocument(Chunks[k].pos)

\* the config-driven parser, with a header pattern whose group is the header
\* line without its colon, does what C9 says
C9_ConfigDrivenAttributes == prog = "config" => C9_AuthorIsLastHeader

\* the number of body segments among the segments up to index i (from 0)
BodyRank(n) ==
    Cardinality({ j \in 0..n : ~is_header_segment(segments[j + 1].s) })

\* the calls of the segmenter made by parse_seriatim_judgment for authors whose
\* name does not override the default opinion
DefaultOpinionCalls ==
    IF prog = "config" /\ calls.seriatim = 1
    THEN { n \in 1..Len(calls.segmenter) : ~DissentSubstringIn(calls.segmenter[n].author) }
    ELSE {}

\* C10 as stated: counting body segments only, the first three are "majority"
\* and every later one "concurring"; the body segments counted are either all
\* segments that are not headers (BodyRank) or only those long enough to be
\* parsed (the rank n of the call), and the statement is taken to hold if it
\* holds for one of the two counts.
C10_FirstThreeBodiesMajority ==
    \A n \in DefaultOpinionCalls :
        LET c == calls.segmenter[n]
        IN  \/ c.opinion_type = IF BodyRank(c.i) <= 3 THEN "majority" ELSE "concurring"
            \/ c.opinion_type = IF n <= 3 THEN "majority" ELSE "concurring"

\* the number of header segments before index i (from 0)
HeadersBefore(n) ==
    Cardinality({ j \in 0..(n - 1) : is_header_segment(segments[j + 1].s) })

\* C10 amended: the position that decides is the index in the split, header
\* segments counted: a body segment with fewer than three segments before it
\* is "majority", every later one "concurring"; so the text before the first
\* header and the first judge's speech are "majority" and the speech after
\* the second header is already "concurring".
C10_FirstThreeSegmentsMajority ==
    \A n \in DefaultOpinionCalls :
        LET c == calls.segmenter[n]
        IN  /\ c.opinion_type = IF c.i < 3 THEN "majority" ELSE "concurring"
            /\ c.is_lead = (c.i < 3)
            /\ HeadersBefore(c.i) <= 1 => c.opinion_type = "majority"
            /\ HeadersBefore(c.i) >= 2 => c.opinion_type = "concurring"

\* the third body segment, after the second header, parsed as "concurring"
C10_Witness ==
    \E n \in DefaultOpinionCalls :
        LET c == calls.segmenter[n]
        IN  /\ c.i = 4
            /\ BodyRank(c.i) = 3
            /\ HeadersBefore(c.i) = 2
            /\ c.opinion_type = "concurring"
            /\ n = 3

\* nothing but a judge header has "dissent" in it
NoDissentInBodies == \A p \in 1..Len(text) : text[p] # "DISSENT"

\* C11: in a seriatim parse, when the judge header in force has "dissent" in
\* the name, in any letter case, the segmenter is called with "dissenting" and
\* every chunk under that header is "dissenting", whatever the position of the
\* segment (the first three included); the chunks under the header before it
\* keep their opinion type.
C11_DissentByHeader ==
    SeriatimParse =>
        /\ \A n \in 1..Len(calls.segmenter) :
              DissentSubstringIn(calls.segmenter[n].author)
                  => calls.segmenter[n].opinion_type = "dissenting"
        /\ \A k \in 1..Len(Chunks) :
              DissentSubstringIn(AuthorInDocument(Chunks[k].pos))
                  => Chunks[k].opinion_type = "dissenting"
        /\ NoDissentInBodies =>
              \A k \in 1..Len(Chunks) :
                  ~DissentSubstringIn(AuthorInDocument(Chunks[k].pos))
                      => Chunks[k].opinion_type # "dissenting"

\* the config-driven parser, with a header pattern that accepts the dissenting
\* header, does what C11 says
C11_ConfigDrivenDissent == prog = "config" => C11_DissentByHeader

\* the config-driven parser on a header "LORD REED:" with a body and then a
\* header "LORD REED DISSENTING:" with a body, and on a dissenting header
\* among the first three segments
C11_ConfigDrivenReached ==
    /\ prog = "config"
    /\ SeriatimParse
    /\ pc = "done"
    /\ \E a, b \in 1..Len(Chunks) :
          /\ a < b
          /\ ~DissentSubstringIn(Chunks[a].author_name)
          /\ Chunks[a].opinion_type = "majority"
          /\ DissentSubstringIn(Chunks[b].author_name)
          /\ Chunks[b].opinion_type = "dissenting"

\* C12: in a seriatim parse, every call of the paragraph segmenter for a body
\* segment passes is_lead true exactly when the opinion type it passes is
\* "majority": a segment passed as "concurring" or "dissenting" is never parsed
\* as the lead opinion.
C12_LeadIffMajority ==
    SeriatimParse =>
        \A n \in 1..Len(calls.segmenter) :
            calls.segmenter[n].is_lead <=> (calls.segmenter[n].opinion_type = "majority")

\* the config-driven parser alone does what C12 says
C12_ConfigDrivenLead == prog = "config" => C12_LeadIffMajority

\* the config-driven parser has passed a "majority", a "concurring" and a
\* "dissenting" segment
C12_ConfigDrivenReached ==
    /\ prog = "config"
    /\ SeriatimParse
    /\ \E n \in 1..Len(calls.segmenter) : calls.segmenter[n].is_lead
    /\ \E n \in 1..Len(calls.segmenter) : calls.segmenter[n].opinion_type = "dissenting"

\* the header segments among the first n segments
HeaderSegmentsUpTo(n) == { j \in 1..n : TreatedAsHeader(segments[j].s) }

\* the current author after n segments when only header segments change it
AuthorAfter(n) ==
    LET hs == HeaderSegmentsUpTo(n)
    IN  IF hs = {}
        THEN (IF prog = "self" THEN << "Unknown Judge" >> ELSE << "Unknown" >>)
        ELSE LET h == Strip(segments[CHOOSE j \in hs : \A q \in hs : q <= j].s)
             IN  IF prog = "self" THEN RStripColon(h) ELSE h

\* the body segment that holds index pos of the text (0: none)
BodySegmentAt(pos) ==
    LET js == { j \in 1..Len(segments) :
                   /\ ~TreatedAsHeader(segments[j].s)
                   /\ segments[j].off < pos
                   /\ pos <= segments[j].off + Len(segments[j].s) }
    IN  IF js = {} THEN 0 ELSE CHOOSE j \in js : TRUE

\* C13: in a seriatim parse a body segment goes to the paragraph segmenter
\* only if its trimmed length is more than 50 characters; a body segment of
\* trimmed length 50 or less gives no chunk, and dropping it leaves the current
\* author as the last header set it.
C13_ShortSegmentDiscarded ==
    SeriatimParse =>
        /\ \A n \in 1..Len(calls.segmenter) :
              StrLen(Strip(calls.segmenter[n].text_block)) > MinSegmentLen
        /\ \A k \in 1..Len(Chunks) :
              LET j == BodySegmentAt(Chunks[k].pos)
              IN  j # 0 /\ StrLen(Strip(segments[j].s)) > MinSegmentLen
        /\ current_author = AuthorAfter(i)

\* the config-driven parser alone does what C13 says
C13_ConfigDrivenDiscards == prog = "config" => C13_ShortSegmentDiscarded

\* the config-driven parser has dropped a body segment of exactly 50
\* characters with a numbered paragraph in it, under a header
C13_ConfigDrivenReached ==
    /\ prog = "config"
    /\ SeriatimParse
    /\ pc = "done"
    /\ result.kind = "case"
    /\ Chunks = << >>
    /\ \E j \in 2..Len(segments) :
          /\ is_header_segment(segments[j - 1].s)
          /\ StrLen(Strip(segments[j].s)) = MinSegmentLen
          /\ Len(ParaSplit(segments[j].s)) > 1

\* the phrase occurs somewhere in s
Mentions(ph, s) == \E p \in 1..Len(s) : s[p] = ph

\* s up to its first line break
UpToLineBreak(s) ==
    IF Mentions("NL", s)
    THEN SubSeq(s, 1, (CHOOSE p \in 1..Len(s) : s[p] = "NL" /\ \A q \in 1..(p - 1) : s[q] # "NL") - 1)
    ELSE s

\* what the classifier returns when the paragraph is not "facts"
NotFactsSection(content) ==
    IF Mentions("COA", content) THEN "history_lower_court"
    ELSE IF Mentions("REASONS", content) THEN "conclusion"
    ELSE "analysis"

\* C14: classify_section returns one of facts, history_lower_court,
\* conclusion, analysis, the first that applies in that order: facts needs the
\* lead opinion and a facts phrase on the first line (a facts phrase on a later
\* line does not count), and below paragraph 25 such a paragraph is facts;
\* otherwise a lower court anywhere in the body gives history_lower_court,
\* even when dispositive language is there too; otherwise dispositive language
\* gives conclusion; otherwise analysis.
C14_ClassifierPrecedence ==
    (fcall.fn = "classify_section" /\ fcall.returned) =>
        LET first_line_facts == Mentions("BACKGROUND", UpToLineBreak(fcall.content))
        IN  /\ fcall.ret \in {"facts", "history_lower_court", "conclusion", "analysis"}
            /\ (fcall.is_lead /\ fcall.para_num < FactsParaLimit /\ first_line_facts)
                  => fcall.ret = "facts"
            /\ fcall.ret = "facts" => (fcall.is_lead /\ first_line_facts)
            /\ fcall.ret # "facts" => fcall.ret = NotFactsSection(fcall.content)

\* dispositive language, then a lower court, then a facts phrase on the second
\* line, in paragraph 1 of the lead opinion: history_lower_court
C14_Witness ==
    /\ fcall.fn = "classify_section"
    /\ fcall.returned
    /\ fcall.content = << "REASONS", "COA", "NL", "BACKGROUND" >>
    /\ fcall.is_lead
    /\ fcall.para_num = 1
    /\ fcall.ret = "history_lower_court"

\* the chunks a direct call of the paragraph segmenter returned
ReturnedChunks ==
    IF fcall.fn = "split_into_paragraphs" /\ fcall.returned THEN fcall.ret.chunks ELSE << >>

\* C15: a paragraph is classified "facts" only in a lead block and only when
\* its number is strictly below 25: paragraph 25, paragraph 30 and every
\* paragraph of a block that is not lead are never "facts", whatever the first
\* line says.
C15_FactsOnlyBelow25InLead ==
    /\ (fcall.fn = "classify_section" /\ fcall.returned /\ fcall.ret = "facts")
          => (fcall.is_lead /\ fcall.para_num < FactsParaLimit)
    /\ \A k \in 1..Len(ReturnedChunks) :
          ReturnedChunks[k].section_type = "facts"
              => (fcall.is_lead /\ ReturnedChunks[k].para_number < FactsParaLimit)

\* the config-driven segmenter alone does what C15 says
C15_ConfigDrivenGate == prog = "config" => C15_FactsOnlyBelow25InLead

\* the config-driven segmenter on paragraphs 24 and 25 of a lead block, both
\* with first line "Background": 24 is facts, 25 is not
C15_ConfigDrivenReached ==
    /\ prog = "config"
    /\ Len(ReturnedChunks) = 2
    /\ fcall.is_lead
    /\ ReturnedChunks[1].para_number = 24
    /\ ReturnedChunks[1].section_type = "facts"
    /\ ReturnedChunks[2].para_number = 25
    /\ Mentions("BACKGROUND", UpToLineBreak(ReturnedChunks[2].content_text))
    /\ ReturnedChunks[2].section_type = "analysis"

\* where a citation starts in s
CitationStarts(s) == { p \in 1..Len(s) : s[p] = "CITE" }

\* the citation that starts at p: "[2024] UKSC 24" and the digits right after it
CitationAt(s, p) ==
    SubSeq(s, p, CHOOSE q \in p..Len(s) :
                    /\ \A r \in (p + 1)..q : IsDigit(s[r])
                    /\ (q = Len(s) \/ ~IsDigit(s[q + 1])))

\* every citation of s, left to right, as written, repeats kept
CitationsOf(s) ==
    [n \in 1..Cardinality(CitationStarts(s)) |->
        CitationAt(s, CHOOSE p \in CitationStarts(s) :
                         Cardinality({ q \in CitationStarts(s) : q < p }) = n - 1)]

\* C16: the citation extractor returns every match of the citation pattern in
\* the span, left to right, each as the matched text, a repeated citation as
\* often as it occurs; and a chunk's cited_cases is that list for the chunk's
\* trimmed body.
C16_EveryCitationInOrder ==
    /\ (fcall.fn = "extract_citations" /\ fcall.returned)
          => fcall.ret = CitationsOf(fcall.content)
    /\ \A k \in 1..Len(ReturnedChunks) :
          /\ ReturnedChunks[k].content_text = Strip(ReturnedChunks[k].content_text)
          /\ ReturnedChunks[k].cited_cases = CitationsOf(ReturnedChunks[k].content_text)

\* a paragraph that cites "[2024] UKSC 24" twice
C16_Witness ==
    /\ prog = "config"
    /\ Len(ReturnedChunks) >= 1
    /\ ReturnedChunks[1].cited_cases = << << "CITE" >>, << "CITE" >> >>
    /\ ReturnedChunks[1].has_citation

\* the detection pattern whose first match is the document's citation
DetectionPattern ==
    IF prog = "self" THEN "CITE" ELSE CONFIG.courts[detected_court].identification_regex

\* where the detection pattern matches in the text being parsed
DetectionStarts == { p \in 1..Len(text) : text[p] = DetectionPattern }

\* the leftmost match of the detection pattern, as written
LeftmostDetection ==
    LET p == CHOOSE q \in DetectionStarts : \A r \in DetectionStarts : q <= r
    IN  IF DetectionPattern = "CITE" THEN CitationAt(text, p) ELSE << text[p] >>

RECURSIVE KeptOfCalls(_)
\* the paragraph numbers the segmenter keeps, over the first n calls made
KeptOfCalls(n) ==
    IF n = 0 THEN << >>
    ELSE KeptOfCalls(n - 1) \o KeptNumbers(ParaSplit(calls.segmenter[n].text_block), 2)

\* C17: the citation of a parsed case is the leftmost match of the detection
\* pattern in the document, and exactly "Unknown Citation" when the pattern
\* matches nowhere; a document without a citation is parsed like any other:
\* nothing is raised and every paragraph the segmenter keeps is a chunk.
C17_CitationLeftmostOrSentinel ==
    /\ result.kind = "case" =>
          result.case.citation =
              IF DetectionStarts = {} THEN << "Unknown Citation" >> ELSE LeftmostDetection
    /\ (prog = "self" /\ pc = "done" /\ ~Mentions("CITE", text)) =>
          /\ result.kind = "case"
          /\ result.case.citation = << "Unknown Citation" >>
          /\ ChunkNumbers = KeptOfCalls(Len(calls.segmenter))

\* a document without a citation, parsed into chunks
C17_Witness ==
    /\ pc = "done"
    /\ result.kind = "case"
    /\ ~Mentions("CITE", raw_text)
    /\ result.case.citation = << "Unknown Citation" >>
    /\ Len(result.case.chunks) >= 2

\* two different citations in one document, the first one taken
C17_LeftmostReached ==
    /\ pc = "done"
    /\ result.kind = "case"
    /\ Cardinality({ CitationAt(text, p) : p \in CitationStarts(text) }) = 2
    /\ result.case.citation = << "CITE", "7" >>

\* the config-driven parser returns no case without a match of the detection
\* pattern, so its cases never carry the sentinel
C17_ConfigDrivenNeverSentinel ==
    (prog = "config" /\ result.kind = "case")
        => result.case.citation # << "Unknown Citation" >>

\* a call of process_document run in one piece gives what ParseAlone says
AloneIsSequential == pc = "done" => result = ParseAlone(raw_text)

\* each finished call, of the running thread and of the other one, returned
\* what the same call returns when it runs alone
EachWorkerAsAlone ==
    /\ pc = "done" => result = ParseAlone(raw_text)
    /\ parked.pc = "done" => parked.result = ParseAlone(parked.raw_text)

\* C18: with two threads that parse documents of their own, their steps
\* interleaved in any way and no lock taken, each call returns what it returns
\* when it runs alone, whatever current author or lead state the other thread
\* is in; and no step of either thread writes CONFIG.
C18_WorkersDoNotInterfere ==
    /\ []EachWorkerAsAlone
    /\ [][CONFIG' = CONFIG]_vars

\* both threads were stopped in the middle of a call; the running one has
\* finished a parse with one author while the other one is in its loop with
\* another author
C18_Witness ==
    /\ pc = "done"
    /\ calls.switched
    /\ result.kind = "case"
    /\ Len(result.case.chunks) >= 1
    /\ parked.pc = "seriatim_loop"
    /\ parked.calls.switched
    /\ parked.locals.i >= 2
    /\ parked.locals.current_author # << "Unknown" >>
    /\ parked.locals.current_author # result.case.chunks[1].author_name
    /\ result.case.chunks[1].author_name # << "Unknown" >>

\* the rows of the table that follow row r in its document, and the ones
\* that precede it
RowsAfter(r) ==
    { p \in 1..Len(corpus_documents) :
         /\ corpus_documents[p].doc_id = r.doc_id
         /\ corpus_documents[p].sentence_index > r.sentence_index }

RowsBefore(r) ==
    { p \in 1..Len(corpus_documents) :
         /\ corpus_documents[p].doc_id = r.doc_id
         /\ corpus_documents[p].sentence_index < r.sentence_index }

\* the row that immediately follows r, and the one that immediately precedes it
RowAfter(r) ==
    corpus_documents[CHOOSE p \in RowsAfter(r) : \A q \in RowsAfter(r) :
                        corpus_documents[p].sentence_index
                            <= corpus_documents[q].sentence_index]

RowBefore(r) ==
    corpus_documents[CHOOSE p \in RowsBefore(r) : \A q \in RowsBefore(r) :
                        corpus_documents[p].sentence_index
                            >= corpus_documents[q].sentence_index]

NeighboursOfHits ==
    \A k \in 1..Len(res.out) :
        LET r == res.out[k].target_sentence
        IN  /\ RowsAfter(r) # {} => res.out[k].next_sentence = RowAfter(r)
            /\ RowsBefore(r) # {} => res.out[k].previous_sentence = RowBefore(r)

\* C19: for every row returned as a search hit, next_sentence is the stored
\* row of the same document that immediately follows it in document order
\* and previous_sentence the one that immediately precedes it, whenever such
\* a row is stored.
C19_NeighboursAreAdjacentRows == res.offset = 0 => NeighboursOfHits

\* no paragraph of the dataset was skipped: the rows of every document are
\* numbered 0, 1, 2, ... with no gap
NoGapInIndex ==
    \A p \in 1..Len(corpus_documents) :
        corpus_documents[p].sentence_index =
            Cardinality(RowsBefore(corpus_documents[p]))

\* the neighbours are right when the ingestion skipped nothing
C19_NeighboursWithoutGap ==
    (res.offset = 0 /\ NoGapInIndex) => NeighboursOfHits

\* a hit in the middle of a document with no gap, with both its neighbours
C19_WithoutGapReached ==
    /\ res.offset = 0
    /\ NoGapInIndex
    /\ Len(res.out) = 1
    /\ res.out[1].target_sentence.id = res.targets[1]
    /\ res.out[1].next_sentence.id # -1
    /\ res.out[1].previous_sentence.id # -1

\* C20: every chunk the Paragraph Segmenter emits carries the section type
\* the Section Classifier gives for its number, its trimmed body and the
\* is_lead of its block: facts only in a lead block with a facts phrase on the
\* first line, and a chunk that is not facts is history_lower_court when its
\* body mentions a lower court, otherwise conclusion when it has dispositive
\* language, otherwise analysis; in both parser variants.
C20_ChunksCarryClassifierResult ==
    \A k \in 1..Len(ReturnedChunks) :
        LET chunk == ReturnedChunks[k]
            first_line_facts == Mentions("BACKGROUND", UpToLineBreak(chunk.content_text))
        IN  /\ (fcall.is_lead /\ chunk.para_number < FactsParaLimit /\ first_line_facts)
                  => chunk.section_type = "facts"
            /\ chunk.section_type = "facts" => (fcall.is_lead /\ first_line_facts)
            /\ chunk.section_type # "facts"
                  => chunk.section_type = NotFactsSection(chunk.content_text)

\* the self-contained segmenter alone does what C20 says
C20_SelfContainedClassifies == prog = "self" => C20_ChunksCarryClassifierResult

\* the self-contained segmenter on paragraph 5 "for these reasons ... Court of
\* Appeal" and paragraph 6 "for these reasons": history_lower_court, conclusion
C20_SelfContainedReached ==
    /\ prog = "self"
    /\ Len(ReturnedChunks) = 2
    /\ ReturnedChunks[1].para_number = 5
    /\ ReturnedChunks[1].section_type = "history_lower_court"
    /\ ReturnedChunks[2].para_number = 6
    /\ ReturnedChunks[2].section_type = "conclusion"

\* the body says "I respectfully dissent"
HasDissentIndicator(s) == \E p \in 1..Len(s) : s[p] = "DISSENT"

\* C21: within one call of the Paragraph Segmenter the dissent override is
\* local to the paragraph: an early paragraph whose body has a dissent
\* indicator is dissenting, and every paragraph of the block, before or after
\* it, whose body has none keeps the opinion type passed in for the block.
C21_DissentOverrideIsLocal ==
    \A k \in 1..Len(ReturnedChunks) :
        LET chunk == ReturnedChunks[k]
        IN  /\ (HasDissentIndicator(chunk.content_text)
                   /\ chunk.para_number < DissentParaLimit)
                  => chunk.opinion_type = "dissenting"
            /\ ~HasDissentIndicator(chunk.content_text)
                  => chunk.opinion_type = fcall.opinion_type

\* the self-contained segmenter alone does what C21 says
C21_SelfContainedLocal == prog = "self" => C21_DissentOverrideIsLocal

\* the self-contained segmenter on paragraph 3 "I respectfully dissent."
\* followed by paragraph 6 of a majority block: dissenting, then majority
C21_SelfContainedReached ==
    /\ prog = "self"
    /\ Len(ReturnedChunks) = 2
    /\ fcall.opinion_type = "majority"
    /\ ReturnedChunks[1].para_number = 3
    /\ ReturnedChunks[1].opinion_type = "dissenting"
    /\ ReturnedChunks[2].para_number = 6
    /\ ReturnedChunks[2].opinion_type = "majority"

\* C22: the body of a paragraph is scanned for dissent indicators only when
\* its number is below 10: a paragraph numbered 10 or more is not made
\* dissenting by its own text, so the first dissenting chunk of a block that
\* was passed in as majority or concurring has a number below 10.
C22_DissentRecheckOnlyBelow10 ==
    \A k \in 1..Len(ReturnedChunks) :
        (/\ ReturnedChunks[k].opinion_type = "dissenting"
         /\ \A j \in 1..(k - 1) : ReturnedChunks[j].opinion_type # "dissenting")
            => ReturnedChunks[k].para_number < DissentParaLimit

\* the config-driven segmenter alone does what C22 says
C22_ConfigDrivenGate == prog = "config" => C22_DissentRecheckOnlyBelow10

\* the config-driven segmenter on paragraph 12 "I respectfully dissent."
\* followed by paragraph 3 with the same text: 12 keeps concurring, 3 is
\* dissenting
C22_ConfigDrivenReached ==
    /\ prog = "config"
    /\ Len(ReturnedChunks) = 2
    /\ fcall.opinion_type = "concurring"
    /\ ReturnedChunks[1].para_number = 12
    /\ HasDissentIndicator(ReturnedChunks[1].content_text)
    /\ ReturnedChunks[1].opinion_type = "concurring"
    /\ ReturnedChunks[2].para_number = 3
    /\ ReturnedChunks[2].opinion_type = "dissenting"

\* C23: every chunk's content_text is a paragraph body with the white space
\* at its two ends removed, and a number whose trimmed body is empty (a
\* paragraph number at the very end of a block) gives no chunk: no chunk has
\* an empty content_text.
C23_NoEmptyChunk ==
    \A k \in 1..Len(ReturnedChunks) :
        /\ ReturnedChunks[k].content_text = Strip(ReturnedChunks[k].content_text)
        /\ ReturnedChunks[k].content_text # << >>

\* the self-contained segmenter alone does what C23 says
C23_SelfContainedDropsEmpty == prog = "self" => C23_NoEmptyChunk

\* the self-contained segmenter on paragraph 6 followed by "4." at the end of
\* the block: one chunk, of paragraph 6
C23_SelfContainedReached ==
    /\ prog = "self"
    /\ fcall.fn = "split_into_paragraphs"
    /\ fcall.returned
    /\ fcall.content = << "NL" >> \o Piece("P6R") \o Piece("P4E")
    /\ Len(ReturnedChunks) = 1
    /\ ReturnedChunks[1].para_number = 6

\* the body segments the self-contained parser has handed to the Paragraph
\* Segmenter so far: the qualifying ones, in the order of the document
SelfCalls == IF prog = "self" THEN calls.segmenter ELSE << >>

\* C24: in the self-contained parser the first qualifying body segment is the
\* lead segment, "majority" by default, and every later qualifying body
\* segment is not lead, "concurring" by default; a segment is "dissenting"
\* instead when the word "dissent" is in its author name or in its body.
C24_FirstJudgePolicy ==
    \A n \in 1..Len(SelfCalls) :
        /\ StrLen(SelfCalls[n].text_block) >= MinSegmentLen
        /\ SelfCalls[n].is_lead <=> (n = 1)
        /\ SelfCalls[n].opinion_type =
              IF DissentWordIn(SelfCalls[n].author) \/ DissentWordIn(SelfCalls[n].text_block)
              THEN "dissenting"
              ELSE IF n = 1 THEN "majority" ELSE "concurring"

\* what the parser does of C24: the first qualifying segment is lead, and the
\* default opinion of a segment follows its is_lead
C24_OpinionFollowsLead ==
    \A n \in 1..Len(SelfCalls) :
        /\ StrLen(SelfCalls[n].text_block) >= MinSegmentLen
        /\ n = 1 => SelfCalls[n].is_lead
        /\ SelfCalls[n].opinion_type =
              IF DissentWordIn(SelfCalls[n].author) \/ DissentWordIn(SelfCalls[n].text_block)
              THEN "dissenting"
              ELSE IF SelfCalls[n].is_lead THEN "majority" ELSE "concurring"

\* two qualifying segments: the first lead and majority, the second not lead
\* and concurring
C24_OpinionFollowsLeadReached ==
    /\ pc = "done"
    /\ Len(SelfCalls) = 2
    /\ SelfCalls[1].is_lead
    /\ SelfCalls[1].opinion_type = "majority"
    /\ ~SelfCalls[2].is_lead
    /\ SelfCalls[2].opinion_type = "concurring"

\* the kind of the first profile, in configuration order, whose pattern
\* matches the document ("none" when no pattern matches)
FirstMatchingKind ==
    IF FirstMatchingCourt = 0 THEN "none"
    ELSE CONFIG.courts[FirstMatchingCourt].structure_type

\* C25: when the first matching profile's kind is neither seriatim nor
\* unitary, process_document returns None, as for an unidentified court,
\* calls no parse strategy and no segmenter, and does not go on to a later
\* profile that matches too.
C25_UnknownKindReturnsNone ==
    (Routed /\ FirstMatchingKind \notin {"none", "seriatim", "unitary"})
        => /\ pc = "done"
           /\ detected_court = FirstMatchingCourt
           /\ result.kind = "None"
           /\ calls = NoCalls
           /\ Chunks = << >>

\* the profile of the other kind matches first and the Supreme Court profile,
\* listed after it, matches too: None
C25_Witness ==
    /\ Routed
    /\ pc = "done"
    /\ FirstMatchingKind = "panel"
    /\ \E j \in (FirstMatchingCourt + 1)..Len(CONFIG.courts) :
          CourtMatches(j) /\ CONFIG.courts[j].structure_type = "seriatim"
    /\ result.kind = "None"

\* C26: every case the config-driven process_document returns has a citation
\* other than "Unknown Citation": the parse strategy searches the text it was
\* given, the document, with the detection pattern of the profile that the
\* document selected.
C26_RoutedCaseHasCitation ==
    (prog = "config" /\ pc = "done" /\ result.kind = "case")
        => /\ CourtMatches(detected_court)
           /\ text = raw_text
           /\ result.case.citation # << "Unknown Citation" >>
           /\ Mentions(CONFIG.courts[detected_court].identification_regex,
                       result.case.citation)

\* a tribunal decision with no Supreme Court citation in it: its citation is
\* the match of the tribunal's detection pattern
C26_Witness ==
    /\ prog = "config"
    /\ pc = "done"
    /\ result.kind = "case"
    /\ ~Mentions("CITE", raw_text)
    /\ result.case.citation = << "TRIB" >>
    /\ result.case.court_level = "UKUT"

\* one round of the loop of the self-contained process_document, seen from
\* outside: whether it called the Paragraph Segmenter, whether as lead, and
\* the chunks it added
LeadFlagStep ==
    (prog = "self" /\ pc = "test_loop" /\ pc' = "test_loop") =>
        LET added == SubSeq(case_data'.chunks, Len(Chunks) + 1, Len(case_data'.chunks))
            called == Len(calls'.segmenter) > Len(calls.segmenter)
            lead == called /\ calls'.segmenter[Len(calls'.segmenter)].is_lead
        IN  /\ seen_first_judge => seen_first_judge'
            /\ (~seen_first_judge /\ seen_first_judge') <=> (lead /\ added # << >>)
            /\ lead => ~seen_first_judge
            /\ (called /\ ~seen_first_judge) => lead
            /\ \A k \in 1..Len(added) : added[k].section_type = "facts" => lead

\* C27: in the self-contained parser the "seen first judge" flag only goes
\* from false to true, and it is set exactly by a segment that is parsed as
\* lead and emits at least one chunk: a segment is parsed as lead only while
\* the flag is false, so at most one segment contributes lead chunks, every
\* "facts" chunk comes from a segment parsed as lead, and a qualifying segment
\* that emits no chunk leaves the lead role to the next qualifying segment.
C27_LeadFlagSetOnce == [][LeadFlagStep]_vars

\* a preamble that qualifies and has no numbered paragraph, then a block whose
\* paragraph 2 "Background" is facts, then a block whose paragraph 2
\* "Background" is not: three calls, lead, lead, not lead
C27_Witness ==
    /\ prog = "self"
    /\ pc = "done"
    /\ seen_first_judge
    /\ Len(calls.segmenter) = 3
    /\ calls.segmenter[1].is_lead
    /\ calls.segmenter[2].is_lead
    /\ ~calls.segmenter[3].is_lead
    /\ Len(Chunks) = 2
    /\ Chunks[1].section_type = "facts"
    /\ Mentions("BACKGROUND", Chunks[2].content_text)
    /\ Chunks[2].section_type = "analysis"

\* get_shortened_paragraph is running or has returned
InShortener ==
    /\ fcall.fn = "summarize_highlight"
    /\ fcall.best_responses # << >> \/ fcall.failed

\* the versions so far: never empty, the original first, one more per round,
\* at most MAX_DEPTH rounds of at most N calls each
VersionsBounded ==
    InShortener =>
        /\ Len(fcall.best_responses) >= 1
        /\ fcall.best_responses[1] = fcall.text
        /\ Len(fcall.best_responses) = fcall.cur_depth + 1
        /\ fcall.cur_depth <= MAX_DEPTH
        /\ fcall.model_calls <= N * MAX_DEPTH
        /\ fcall.model_calls <= N * (fcall.cur_depth + 1)
        /\ fcall.pc = "round" => fcall.cur_depth < MAX_DEPTH

\* a round that ends with N responses appends one version, a response of the
\* round that no other response beats, and goes on with it; below 1.5 it is
\* the last round
RoundAppendsBest ==
    (InShortener /\ fcall'.cur_depth # fcall.cur_depth) =>
        LET added == fcall'.paragraph
            info(r) == response_info(fcall.text, fcall.paragraph, r)
        IN  /\ fcall'.cur_depth = fcall.cur_depth + 1
            /\ Len(fcall.responses) = N
            /\ fcall'.best_responses = Append(fcall.best_responses, added)
            /\ \E k \in 1..N : fcall.responses[k] = added
            /\ \A k \in 1..N :
                  info(fcall.responses[k]).composite_score <= info(added).composite_score
            /\ 2 * info(added).composite_score < 3 * info(added).scale
                  => fcall'.pc = "shortened"

\* C28: get_shortened_paragraph ends after at most MAX_DEPTH rounds of N
\* model calls, whatever the model answers and whichever calls fail; the list
\* it returns is never empty, starts with the original paragraph and has at
\* most MAX_DEPTH + 1 elements; every round appends exactly one element, the
\* response of the round with the highest composite score, which is the input
\* of the next round; a round whose best score is below 1.5 is appended and
\* is the last.
C28_ShortenerBoundedRounds ==
    /\ []VersionsBounded
    /\ [][RoundAppendsBest]_vars
    /\ <>(fcall.pc = "responded")

\* three full rounds, each one word shorter: four versions after nine calls
C28_Witness ==
    /\ fcall.fn = "summarize_highlight"
    /\ fcall.pc = "shortened"
    /\ ~fcall.failed
    /\ fcall.model_calls = N * MAX_DEPTH
    /\ Len(fcall.best_responses) = MAX_DEPTH + 1
    /\ \A k \in 1..MAX_DEPTH :
          Len(fcall.best_responses[k + 1]) = Len(fcall.best_responses[k]) - 1

\* a round whose best score is below 1.5: appended, and the loop is left with
\* rounds to spare
C28_EarlyStopReached ==
    /\ fcall.fn = "summarize_highlight"
    /\ fcall.pc = "shortened"
    /\ ~fcall.failed
    /\ fcall.cur_depth = 1
    /\ fcall.best_responses[2] = << >>

\* C29: when a call of the model fails, get_shortened_paragraph drops the
\* responses of that round and returns the versions of the earlier rounds,
\* raising nothing; summarize_text then never returns the "Failed to generate
\* summarization" result, and when the first round failed its summarization is
\* the input text, which the endpoint stores in the row and returns with
\* status 200 (when its own writes of the table succeed).
C29_ModelFailureKeepsVersions ==
    (fcall.fn = "summarize_highlight" /\ fcall.failed) =>
        /\ fcall.pc \in {"shortened", "summarized", "responded"}
        /\ fcall.responses = << >>
        /\ Len(fcall.best_responses) = fcall.cur_depth + 1
        /\ fcall.best_responses[1] = fcall.text
        /\ fcall.model_calls <= N * fcall.cur_depth + N
        /\ fcall.model_calls > N * fcall.cur_depth
        /\ fcall.pc \in {"summarized", "responded"} =>
              /\ fcall.result[1].error = ""
              /\ fcall.result[1].summarization =
                    fcall.best_responses[Len(fcall.best_responses)]
              /\ fcall.cur_depth = 0 => fcall.result[1].summarization = fcall.text
        /\ (fcall.pc = "responded" /\ fcall.store = "ok") =>
              /\ fcall.response[1].status = 200
              /\ fcall.response[1].summarization = fcall.result[1].summarization
              /\ fcall.highlight[1].summarization = << fcall.result[1].summarization >>

\* the second call of the first round failed: the endpoint has stored the
\* input text as the summarization and answered 200 with it
C29_Witness ==
    /\ fcall.fn = "summarize_highlight"
    /\ fcall.pc = "responded"
    /\ fcall.failed
    /\ fcall.cur_depth = 0
    /\ fcall.model_calls = 2
    /\ Len(fcall.text) = MaxWords
    /\ fcall.response[1].status = 200
    /\ fcall.response[1].summarization = fcall.text
    /\ fcall.highlight[1].summarization = << fcall.text >>

\* a call of the second round failed: the version of the first round is kept
C29_LaterRoundReached ==
    /\ fcall.fn = "summarize_highlight"
    /\ fcall.pc = "responded"
    /\ fcall.failed
    /\ fcall.cur_depth = 1
    /\ fcall.response[1].status = 200
    /\ fcall.response[1].summarization = fcall.best_responses[2]
    /\ fcall.response[1].summarization # fcall.text

\* what the lookup of row id at an offset may give: the row the table holds
\* there (EmptyDocument when it holds none), or EmptyDocument when it raised
LookupOutcomes(id, offset) ==
    { get_offset(corpus_documents, id, offset), EmptyDocument }

\* the results of the call, had the lookups run one after the other and none
\* raised
SequentialResults ==
    [n \in 1..Len(res.targets) |->
        LET target_sentence ==
                get_offset(corpus_documents, res.targets[n].id, res.offset)
        IN  [target_sentence |-> target_sentence,
             next_sentence |-> get_next_sentence(corpus_documents, target_sentence.id),
             previous_sentence |->
                 get_previous_sentence(corpus_documents, target_sentence.id),
             similarity |-> IF res.targets[n].similarity = << >> THEN 0
                            ELSE res.targets[n].similarity[1]]]

\* C30: SentenceRetriever.query returns one result per search hit, in the
\* order of the hits, whatever the order in which the concurrent offset, next
\* and previous lookups complete; result n carries the similarity of hit n
\* (0 when the hit has none), also when a non-zero offset makes its
\* target_sentence another row; next_sentence and previous_sentence of result
\* n are looked up from the target_sentence of result n; a lookup that finds
\* no row or raises gives EmptyDocument (id -1), never a shorter list.
C30_ResultsFollowHits ==
    res.pc = "returned" =>
        /\ Len(res.out) = Len(res.targets)
        /\ \A n \in 1..Len(res.out) :
              /\ res.out[n].similarity = SequentialResults[n].similarity
              /\ res.out[n].target_sentence
                    \in LookupOutcomes(res.targets[n].id, res.offset)
              /\ res.out[n].next_sentence
                    \in LookupOutcomes(res.out[n].target_sentence.id, 1)
              /\ res.out[n].previous_sentence
                    \in LookupOutcomes(res.out[n].target_sentence.id, -1)
        /\ ~res.raised => res.out = SequentialResults

\* two hits with different similarities and offset 1; the lookups completed
\* out of order and none raised; the second result is the row after the
\* second hit, with the second hit's similarity and its real neighbours; the
\* first hit is the last row, so its target sentence is EmptyDocument
C30_Witness ==
    /\ res.pc = "returned"
    /\ res.offset = 1
    /\ res.overtaken
    /\ ~res.raised
    /\ Len(res.out) = 2
    /\ res.targets[1].id > res.targets[2].id
    /\ res.out[1].similarity = 40
    /\ res.out[2].similarity = 87
    /\ res.out[1].target_sentence = EmptyDocument
    /\ res.out[1].next_sentence = EmptyDocument
    /\ res.out[2].target_sentence.id = res.targets[2].id + 1
    /\ res.out[2].previous_sentence.id = res.targets[2].id
    /\ res.out[2].next_sentence.id = res.targets[2].id + 2

\* a lookup of a stored row raised: the result is still there, with
\* EmptyDocument in its place
C30_RaisedLookupReached ==
    /\ res.pc = "returned"
    /\ res.raised
    /\ res.offset = 0
    /\ Len(res.out) = 2
    /\ res.out[1].target_sentence = EmptyDocument
    /\ res.out[2].target_sentence.id = res.targets[2].id
    /\ res.out[2].similarity = 0
    /\ res.targets[2].similarity = << >>

====
